---- MODULE Spec2Model ----
(***************************************************************************)
(* A model of the rpython interpreter: the compiler of src/src/ast.rs      *)
(* lowering an AST to a CodeObject, and the stack VM of src/src/vm.rs      *)
(* (Vm::run, Vm::load_module) executing it.  Indices (ip, pool indices)    *)
(* are 0-based as in the source; At(s, i) reads a 0-based sequence.        *)
(*                                                                         *)
(* Handlers of Vm::run modelled: LoadConst, LoadName, StoreName,           *)
(* LoadGlobal, StoreGlobal, Pop, Return, Call, Def, Add, UnaryNeg, Jump,   *)
(* JumpIfFalse, BuildList, BuildTuple, BuildDict, LoadIndex, StoreIndex,   *)
(* SetupLoop, PopBlock, Break, GetIter, ForIter, Import, ImportFrom,       *)
(* ImportStar, and the end-of-code check.  Lists and Dicts live in a heap  *)
(* of cells; a value holds the address of its cell.                        *)
(***************************************************************************)
EXTENDS Integers, Sequences, FiniteSets, TLC

VARIABLES
    stack,        \* Vm.stack of the running VM
    env,          \* Vm.env: [locals, globals, builtins]
    loop_stack,   \* Vm.loop_stack
    iter_stack,   \* Vm.iter_stack
    modules,      \* Vm.modules: the running VM's module cache
    ip,           \* run(): instruction pointer
    frames,       \* run(): saved (ip, code, env) of pending calls
    cur,          \* run(): the CodeObject being executed
    result,       \* what run() returned: Pending, a value, or an Err
    callers,      \* the VMs suspended in load_module, outermost first
    fs_reads,     \* file names handed to std::fs::read_to_string, in order
    body_runs,    \* module names whose body load_module started to run
    native_calls, \* host closures invoked: <<name, args>>, in order
    fn_calls,     \* Calls of user Functions, in order: what each left behind
    input,        \* the program and embedding arguments given to execute
    heap          \* the Rc<RefCell<..>> cells of Lists and Dicts, by address

vars == <<stack, env, loop_stack, iter_stack, modules, ip, frames, cur,
          result, callers, fs_reads, body_runs, native_calls, fn_calls, input,
          heap>>

-----------------------------------------------------------------------------
(* Bounds of the model *)

\* Integer arguments of the parameterised programs range over 0..MaxArg.
MaxArg == 1

\* Width in bits of the modelled usize (the source's is 64).
UsizeBits == 6

\* Length of the sequences the indexing programs index.
SeqLen == 3

\* The arguments of the range programs range over -MaxRange..MaxRange.
MaxRange == 2

\* Number of name_index and const_index calls made on one code object.
MaxCalls == 3

\* Number of sub-VMs the model follows a chain of module loads into (the
\* source nests them until the thread's stack is exhausted).
MaxNest == 4

\* Width in bits of the modelled i64 of PyObject::Int where a handler's
\* arithmetic can leave it (the source's is 64).
IntBits == 5

-----------------------------------------------------------------------------
(* Values: PyObject and its records *)

IntV(i) == [t |-> "Int", i |-> i]
StrV(s) == [t |-> "Str", s |-> s]
BoolV(b) == [t |-> "Bool", b |-> b]
\* An f64 as the ratio num/den in lowest terms, den above zero; den is zero
\* for the infinities (num 1 or -1) and for NaN (num 0).  The values used
\* are ratios an f64 holds exactly.
FloatV(n, d) ==
    LET RECURSIVE gcd(_, _)
        gcd(x, y) == IF y = 0 THEN x ELSE gcd(y, x % y)
        Lowest(num, den, g) == [t |-> "Float", num |-> num \div g, den |-> den \div g]
        Abs(x) == IF x < 0 THEN -x ELSE x
    IN  IF d = 0
        THEN [t |-> "Float", num |-> IF n > 0 THEN 1 ELSE IF n < 0 THEN -1 ELSE 0,
              den |-> 0]
        ELSE IF d < 0 THEN Lowest(-n, -d, gcd(Abs(n), Abs(d)))
        ELSE Lowest(n, d, gcd(Abs(n), Abs(d)))
NoneV == [t |-> "None"]
TypeV(n) == [t |-> "Type", name |-> n]
FunctionV(n, a, c, g) ==
    [t |-> "Function", name |-> n, arity |-> a, code |-> c, globals |-> g]
NativeFunctionV(n, a) == [t |-> "NativeFunction", name |-> n, arity |-> a]
ModuleV(n, d) == [t |-> "Module", name |-> n, dict |-> d]
NativeModuleV(n, d) == [t |-> "NativeModule", name |-> n, dict |-> d]
\* List and Dict hold an Rc: the value is the address of a cell of the heap,
\* and a clone of the value is the same address.  A Tuple holds its items.
ListV(r) == [t |-> "List", ref |-> r]
DictV(r) == [t |-> "Dict", ref |-> r]
TupleV(items) == [t |-> "Tuple", items |-> items]
\* A Set holds an Rc too: its cell is the members, each once, in the order
\* they were inserted (the order a HashSet visits them in is not modelled).
SetV(r) == [t |-> "Set", ref |-> r]

\* usize::MAX, the arity of a variadic native.
UNBOUNDED == 2^UsizeBits - 1

\* An Instance holds an Rc<RefCell<PyInstance>>: the address of a heap cell
\* [class, attrs], where class is the PyClass record [name, methods].
\* A faulty constructor whose instances all are the first one.
InstanceVShared(r) == [t |-> "Instance", ref |-> 0]
InstanceV(r) == [t |-> "Instance", ref |-> r]
\* The constructor ClassDef synthesises: a variadic native whose closure
\* holds the class.
ConstructorV(class) ==
    [t |-> "NativeFunction", name |-> class.name, arity |-> UNBOUNDED, class |-> class]
\* The bound method LoadAttr synthesises: a native whose closure holds the
\* Function and the instance.
BoundMethodV(n, a, f, inst) ==
    [t |-> "NativeFunction", name |-> n, arity |-> a, func |-> f, self |-> inst]

\* Result<_, String>: the Err side, by the message's leading category (or
\* the whole message when it carries none).
Err(msg) == [t |-> "Err", msg |-> msg]
Pending == [t |-> "Pending"]

\* HashMap<String, PyObject>
EmptyMap == [k \in {} |-> NoneV]
Insert(m, k, v) == [x \in DOMAIN m \cup {k} |-> IF x = k THEN v ELSE m[x]]

At(s, i) == s[i + 1]
Front(s) == SubSeq(s, 1, Len(s) - 1)
Last(s) == s[Len(s)]

EnvDefault == [locals |-> EmptyMap, globals |-> EmptyMap, builtins |-> EmptyMap]

CodeObjectDefault ==
    [consts |-> <<>>, names |-> <<>>, instructions |-> <<>>, nested |-> <<>>]

\* enum Op
Op0(o) == [op |-> o]
Op1(o, a) == [op |-> o, arg |-> a]
DefOp(n, a, c) == [op |-> "Def", name |-> n, arity |-> a, code_idx |-> c]
ImportFromOp(m, ns) == [op |-> "ImportFrom", module |-> m, names |-> ns]

-----------------------------------------------------------------------------
(* The AST handed over by the parser (ruff_python_ast), as the compiler     *)
(* matches on it.                                                          *)

NumberLiteral(i) == [k |-> "NumberLiteral", is_int |-> TRUE, value |-> i]
FloatLiteral(n, d) == [k |-> "NumberLiteral", is_int |-> FALSE, value |-> <<n, d>>]
BooleanLiteral(b) == [k |-> "BooleanLiteral", value |-> b]
StringLiteral(s) == [k |-> "StringLiteral", value |-> s]
NoneLiteral == [k |-> "NoneLiteral"]
Name(id) == [k |-> "Name", id |-> id]
BinOp(l, o, r) == [k |-> "BinOp", left |-> l, op |-> o, right |-> r]
Call(f, as) == [k |-> "Call", func |-> f, args |-> as, keywords |-> 0]

Assign(tgt, v) == [k |-> "Assign", targets |-> <<tgt>>, value |-> v]
ExprStmt(v) == [k |-> "Expr", value |-> v]
FunctionDef(n, ps, b) == [k |-> "FunctionDef", name |-> n, args |-> ps, body |-> b]
Return(v) == [k |-> "Return", has_value |-> TRUE, value |-> v]
Import(n) == [k |-> "Import", name |-> n]
ImportFromStmt(m, ns) == [k |-> "ImportFrom", module |-> m, names |-> ns]
ImportStarStmt(m) == [k |-> "ImportStar", module |-> m]
Pass == [k |-> "Pass"]
UnaryOp(o, e) == [k |-> "UnaryOp", op |-> o, operand |-> e]
List(elts) == [k |-> "List", elts |-> elts]
Tuple(elts) == [k |-> "Tuple", elts |-> elts]
Set(elts) == [k |-> "Set", elts |-> elts]
\* items: <<key, value>> pairs, every key present (no `**` unpacking)
Dict(items) == [k |-> "Dict", items |-> items]
Subscript(v, sl) == [k |-> "Subscript", value |-> v, slice |-> sl]
\* clauses: the elif/else clauses; an else clause has no test
If(t, b, clauses) == [k |-> "If", test |-> t, body |-> b, elif_else_clauses |-> clauses]
Clause(has_test, t, b) == [has_test |-> has_test, test |-> t, body |-> b]
While(t, b) == [k |-> "While", test |-> t, body |-> b]
Continue == [k |-> "Continue"]
ClassDef(n, b) == [k |-> "ClassDef", name |-> n, body |-> b]
Attribute(v, a) == [k |-> "Attribute", value |-> v, attr |-> a]
For(x, it, b) == [k |-> "For", target |-> x, iter |-> it, body |-> b]
Break == [k |-> "Break"]

-----------------------------------------------------------------------------
(* Compiler (src/src/ast.rs).  A compile step takes and returns             *)
(* [code, err]: the &mut CodeObject and the Result; err = "" is Ok.        *)

Ok(code) == [code |-> code, err |-> ""]

\* A faulty lookup that never finds an entry.
PoolFindNever(pool, x) == Len(pool)

\* The index of x in a pool, and the pool after the lookup: a linear scan
\* for an equal entry, appending when there is none.
PoolFind(pool, x) ==
    IF \E i \in 1..Len(pool) : pool[i] = x
    THEN (CHOOSE i \in 1..Len(pool) :
             pool[i] = x /\ \A j \in 1..(i - 1) : pool[j] # x) - 1
    ELSE Len(pool)

name_index(code, name) ==
    LET i == PoolFind(code.names, name)
    IN  [i |-> i,
         code |-> IF i < Len(code.names) THEN code
                  ELSE [code EXCEPT !.names = Append(@, name)]]

const_index(code, obj) ==
    LET i == PoolFind(code.consts, obj)
    IN  [i |-> i,
         code |-> IF i < Len(code.consts) THEN code
                  ELSE [code EXCEPT !.consts = Append(@, obj)]]

Emit(code, op) == [code EXCEPT !.instructions = Append(@, op)]

\* A faulty patch that leaves the placeholder.
PatchNothing(code, at, op) == code

\* `code.instructions[at] = op`
Patch(code, at, op) == [code EXCEPT !.instructions[at + 1] = op]

LoadConstOf(code, obj) ==
    LET c == const_index(code, obj) IN Ok(Emit(c.code, Op1("LoadConst", c.i)))

BinOpcode(o) ==
    CASE o = "Add" -> "Add" [] o = "Sub" -> "Sub"
      [] o = "Mult" -> "Mul" [] o = "Div" -> "Div"
      [] OTHER -> ""

RECURSIVE compile_expr(_, _)
RECURSIVE compile_class(_, _)
RECURSIVE compile_exprs(_, _)

\* `for a in args { self.compile_expr(a, code)?; }`
compile_exprs(es, code) ==
    LET Rest(r) == IF r.err # "" THEN r ELSE compile_exprs(Tail(es), r.code)
    IN  IF es = <<>> THEN Ok(code) ELSE Rest(compile_expr(Head(es), code))

\* Each step that ends in `?` hands its Err back at once; the steps after it
\* go on with the code object as it left it.
compile_expr(e, code) ==
    CASE e.k = "StringLiteral" -> LoadConstOf(code, StrV(e.value))
      [] e.k = "BooleanLiteral" -> LoadConstOf(code, BoolV(e.value))
      [] e.k = "NumberLiteral" ->
            LoadConstOf(code, IF e.is_int THEN IntV(e.value)
                              ELSE FloatV(e.value[1], e.value[2]))
      [] e.k = "NoneLiteral" -> LoadConstOf(code, NoneV)
      [] e.k = "Name" ->
            LET n == name_index(code, e.id)
            IN  Ok(Emit(n.code, Op1("LoadName", n.i)))
      [] e.k = "BinOp" ->
            LET Operator(r) ==
                    IF r.err # "" THEN r
                    ELSE IF BinOpcode(e.op) = ""
                    THEN [code |-> r.code, err |-> "unsupported binop"]
                    ELSE Ok(Emit(r.code, Op0(BinOpcode(e.op))))
                Right(l) ==
                    IF l.err # "" THEN l ELSE Operator(compile_expr(e.right, l.code))
            IN  Right(compile_expr(e.left, code))
      [] e.k = "Call" ->
            LET CallOp(a) ==
                    IF a.err # "" THEN a
                    ELSE Ok(Emit(a.code, Op1("Call", Len(e.args) + e.keywords)))
                Arguments(f) ==
                    IF f.err # "" THEN f ELSE CallOp(compile_exprs(e.args, f.code))
            IN  Arguments(compile_expr(e.func, code))
      [] e.k = "UnaryOp" ->
            LET Operator(r) ==
                    IF r.err # "" THEN r
                    ELSE IF e.op = "USub" THEN Ok(Emit(r.code, Op0("UnaryNeg")))
                    ELSE IF e.op = "UAdd" THEN Ok(Emit(r.code, Op0("UnaryPos")))
                    ELSE [code |-> r.code, err |-> "unsupported unary operator"]
            IN  Operator(compile_expr(e.operand, code))
      [] e.k \in {"List", "Tuple", "Set"} ->
            LET Build(r) ==
                    IF r.err # "" THEN r
                    ELSE Ok(Emit(r.code, Op1(CASE e.k = "List" -> "BuildList"
                                               [] e.k = "Tuple" -> "BuildTuple"
                                               [] e.k = "Set" -> "BuildSet",
                                             Len(e.elts))))
            IN  Build(compile_exprs(e.elts, code))
      [] e.k = "Dict" ->
            LET Build(r) ==
                    IF r.err # "" THEN r
                    ELSE Ok(Emit(r.code, Op1("BuildDict", Len(e.items))))
            IN  Build(compile_exprs(
                    [i \in 1..(2 * Len(e.items)) |->
                        e.items[(i + 1) \div 2][IF i % 2 = 1 THEN 1 ELSE 2]], code))
      [] e.k = "Subscript" ->
            LET Load(r) ==
                    IF r.err # "" THEN r ELSE Ok(Emit(r.code, Op0("LoadIndex")))
                Slice(o) ==
                    IF o.err # "" THEN o ELSE Load(compile_expr(e.slice, o.code))
            IN  Slice(compile_expr(e.value, code))
      [] e.k = "Attribute" -> compile_class(e, code)
      [] OTHER -> [code |-> code, err |-> "unsupported expression"]

\* Import statements.  src/src/ast.rs has no case for them; the ops that
\* vm.rs handles are emitted as the specification's compiler section says:
\* the matching op with the name indices of the module and of the names.
RECURSIVE name_indices(_, _, _)
name_indices(ns, code, acc) ==
    IF ns = <<>> THEN [is |-> acc, code |-> code]
    ELSE LET n == name_index(code, Head(ns))
         IN  name_indices(Tail(ns), n.code, Append(acc, n.i))

compile_import(stmt, code) ==
    LET m == name_index(code, IF stmt.k = "Import" THEN stmt.name ELSE stmt.module)
    IN  CASE stmt.k = "Import" -> Ok(Emit(m.code, Op1("Import", m.i)))
          [] stmt.k = "ImportStar" -> Ok(Emit(m.code, Op1("ImportStar", m.i)))
          [] stmt.k = "ImportFrom" ->
                LET ns == name_indices(stmt.names, m.code, <<>>)
                IN  Ok(Emit(ns.code, ImportFromOp(m.i, ns.is)))

\* `for elif in &if_stmt.elif_else_clauses { for stmt in elif.body.iter() ..`:
\* the statements the loop compiles, in order.  A clause's test is not read.
RECURSIVE clause_bodies(_)
clause_bodies(cs) ==
    IF cs = <<>> THEN <<>> ELSE Head(cs).body \o clause_bodies(Tail(cs))

RECURSIVE compile_stmt(_, _)
RECURSIVE compile_loop(_, _)
RECURSIVE compile_stmts(_, _)

\* `for stmt in body { self.compile_stmt(stmt, code)?; }`
compile_stmts(ss, code) ==
    LET Rest(r) == IF r.err # "" THEN r ELSE compile_stmts(Tail(ss), r.code)
    IN  IF ss = <<>> THEN Ok(code) ELSE Rest(compile_stmt(Head(ss), code))

compile_stmt(stmt, code) ==
    CASE stmt.k = "Assign" ->
            LET Target(v) ==
                    IF v.err # "" THEN v
                    ELSE IF stmt.targets[1].k = "Name"
                    THEN LET n == name_index(v.code, stmt.targets[1].id)
                         IN  Ok(Emit(n.code, Op1("StoreName", n.i)))
                    ELSE IF stmt.targets[1].k = "Subscript"
                    THEN LET Store(r) ==
                                 IF r.err # "" THEN r
                                 ELSE Ok(Emit(r.code, Op0("StoreIndex")))
                             Again(sl) ==
                                 IF sl.err # "" THEN sl
                                 ELSE Store(compile_expr(stmt.value, sl.code))
                             Slice(o) ==
                                 IF o.err # "" THEN o
                                 ELSE Again(compile_expr(stmt.targets[1].slice, o.code))
                         IN  Slice(compile_expr(stmt.targets[1].value, v.code))
                    ELSE IF stmt.targets[1].k = "Attribute"
                    THEN compile_class(stmt, v.code)
                    ELSE [code |-> v.code, err |-> "unsupported assignment target"]
            IN  IF Len(stmt.targets) # 1
                THEN [code |-> code, err |-> "unsupported assignment"]
                ELSE Target(compile_expr(stmt.value, code))
      [] stmt.k = "Expr" -> compile_expr(stmt.value, code)
      [] stmt.k = "If" ->
            LET Finish(r, jump_idx) ==
                    IF r.err # "" \/ stmt.elif_else_clauses = <<>> THEN r
                    ELSE Ok(Patch(r.code, jump_idx, Op1("Jump", Len(r.code.instructions))))
                Clauses(c, else_jump, jump_idx) ==
                    Finish(compile_stmts(clause_bodies(stmt.elif_else_clauses),
                               Patch(c, else_jump,
                                     Op1("JumpIfFalse", Len(c.instructions)))),
                           jump_idx)
                EndJump(b, else_jump) ==
                    IF b.err # "" THEN b
                    ELSE IF stmt.elif_else_clauses # <<>>
                    THEN Clauses(Emit(b.code, Op1("Jump", 0)), else_jump,
                                 Len(b.code.instructions))
                    ELSE Clauses(b.code, else_jump, 0)
                Body(t) ==
                    IF t.err # "" THEN t
                    ELSE EndJump(compile_stmts(stmt.body,
                                     Emit(t.code, Op1("JumpIfFalse", 0))),
                                 Len(t.code.instructions))
            IN  Body(compile_expr(stmt.test, code))
      [] stmt.k = "FunctionDef" ->
            LET Define(fcode) ==
                    LET code_idx == Len(code.nested)
                        n == name_index([code EXCEPT !.nested = Append(@, fcode)],
                                        stmt.name)
                    IN  Ok(Emit(n.code, DefOp(n.i, Len(stmt.args), code_idx)))
                Body(r) ==
                    IF r.err # "" THEN [code |-> code, err |-> r.err]
                    ELSE Define(LoadConstOf(r.code, NoneV).code)
            IN  Body(compile_stmts(stmt.body,
                        name_indices(stmt.args, CodeObjectDefault, <<>>).code))
      [] stmt.k = "Return" ->
            LET ReturnOp(v) ==
                    IF v.err # "" THEN v ELSE Ok(Emit(v.code, Op0("Return")))
            IN  IF stmt.has_value
                THEN ReturnOp(compile_expr(stmt.value, code))
                ELSE ReturnOp(LoadConstOf(code, NoneV))
      [] stmt.k \in {"Import", "ImportFrom", "ImportStar"} ->
            compile_import(stmt, code)
      [] stmt.k \in {"For", "While", "Break", "Continue"} -> compile_loop(stmt, code)
      [] stmt.k = "ClassDef" -> compile_class(stmt, code)
      [] OTHER -> [code |-> code, err |-> "unsupported statement"]

\* For and break statements.  src/src/ast.rs has no case for them; the ops
\* that vm.rs handles are laid out as the specification's compiler section
\* says: the iterable, GetIter, SetupLoop, then at loop_top ForIter and
\* StoreName of the target, the body, Jump loop_top, and PopBlock where
\* ForIter leaves the loop.  SetupLoop directly precedes loop_top, which is
\* where Continue resumes, and its exit is the address after PopBlock.
\* A while statement is SetupLoop exit, then at loop_top the test and
\* JumpIfFalse exit, the body, Jump loop_top, and at the exit label PopBlock.
compile_loop(stmt, code) ==
    IF stmt.k = "Break" THEN Ok(Emit(code, Op0("Break")))
    ELSE IF stmt.k = "Continue" THEN Ok(Emit(code, Op0("Continue")))
    ELSE IF stmt.k = "While"
    THEN LET Close(c, setup, jump_idx) ==
                 Ok(Emit(Patch(Patch(c, setup,
                                     Op1("SetupLoop", Len(c.instructions))),
                               jump_idx, Op1("JumpIfFalse", Len(c.instructions))),
                         Op0("PopBlock")))
             End(b, setup, jump_idx) ==
                 IF b.err # "" THEN b
                 ELSE Close(Emit(b.code, Op1("Jump", setup + 1)), setup, jump_idx)
             Body(t, setup) ==
                 IF t.err # "" THEN t
                 ELSE End(compile_stmts(stmt.body, Emit(t.code, Op1("JumpIfFalse", 0))),
                          setup, Len(t.code.instructions))
         IN  Body(compile_expr(stmt.test, Emit(code, Op1("SetupLoop", 0))),
                  Len(code.instructions))
    ELSE LET Close(c, top) ==
                 Ok(Patch(Patch(c, top - 1, Op1("SetupLoop", Len(c.instructions))),
                          top, Op1("ForIter", Len(c.instructions) - 1)))
             End(b, top) ==
                 IF b.err # "" THEN b
                 ELSE Close(Emit(Emit(b.code, Op1("Jump", top)), Op0("PopBlock")), top)
             Target(n, top) ==
                 End(compile_stmts(stmt.body, Emit(n.code, Op1("StoreName", n.i))), top)
             LoopTop(c) ==
                 Target(name_index(Emit(c, Op1("ForIter", 0)), stmt.target),
                        Len(c.instructions))
             Iter(r) ==
                 IF r.err # "" THEN r
                 ELSE LoopTop(Emit(Emit(r.code, Op0("GetIter")), Op1("SetupLoop", 0)))
         IN  Iter(compile_expr(stmt.iter, code))

\* Class statements, attribute access and assignment to an attribute.
\* src/src/ast.rs has no case for them; the ops that vm.rs handles are
\* emitted as the specification's compiler section says: the class body is
\* a nested CodeObject named by ClassDef, an attribute access is the object
\* and LoadAttr, an attribute target is the object, the value and StoreAttr.
compile_class(node, code) ==
    CASE node.k = "ClassDef" ->
            LET Define(r) ==
                    IF r.err # "" THEN [code |-> code, err |-> r.err]
                    ELSE LET n == name_index([code EXCEPT !.nested = Append(@, r.code)],
                                             node.name)
                         IN  Ok(Emit(n.code, [op |-> "ClassDef", name |-> n.i,
                                              code_idx |-> Len(code.nested)]))
            IN  Define(compile_stmts(node.body, CodeObjectDefault))
      [] node.k = "Attribute" ->
            LET Load(o) ==
                    IF o.err # "" THEN o
                    ELSE LET n == name_index(o.code, node.attr)
                         IN  Ok(Emit(n.code, Op1("LoadAttr", n.i)))
            IN  Load(compile_expr(node.value, code))
      [] node.k = "Assign" ->
            LET Store(v) ==
                    IF v.err # "" THEN v
                    ELSE LET n == name_index(v.code, node.targets[1].attr)
                         IN  Ok(Emit(n.code, Op1("StoreAttr", n.i)))
                Value(o) ==
                    IF o.err # "" THEN o ELSE Store(compile_expr(node.value, o.code))
            IN  Value(compile_expr(node.targets[1].value, code))

compile_body(body, code) ==
    LET End(r) ==
            IF r.err # "" THEN r
            ELSE Ok(Emit(IF body = <<>> THEN LoadConstOf(r.code, NoneV).code
                         ELSE r.code,
                         Op0("Return")))
    IN  End(compile_stmts(body, code))

\* Compiler::compile on a parsed module body.
compile(body) == compile_body(body, CodeObjectDefault)

-----------------------------------------------------------------------------
(* Builtins and host natives *)

\* Vm::with_builtins: set, range, print, type.
Builtins ==
    [n \in {"set", "range", "print", "type"} |->
        NativeFunctionV(n, CASE n = "set" -> 0 [] n = "type" -> 1
                             [] OTHER -> UNBOUNDED)]

\* The `type` builtin's name for a value.
TypeName(v) ==
    CASE v.t = "Int" -> "int" [] v.t = "Str" -> "str" [] v.t = "Bool" -> "bool"
      [] v.t = "Float" -> "float" [] v.t = "List" -> "list"
      [] v.t = "Dict" -> "dict" [] v.t = "Tuple" -> "tuple" [] v.t = "Set" -> "set"
      [] v.t = "None" -> "NoneType" [] v.t = "Function" -> "function"
      [] v.t = "NativeFunction" -> "native_function"
      [] v.t \in {"Module", "NativeModule"} -> "module"
      [] v.t = "Type" -> "type"

\* impl Display for PyObject, what print writes for a value: `{v}` of an i64,
\* of an f64 (the decimal digits, with no fraction when there is none, inf, NaN)
\* and of a bool (true, false); a Str as it is; the items of a container
\* joined by ", ".  h is the heap the value's cells are read from.
RECURSIVE Display(_, _)
Display(v, h) ==
    LET RECURSIVE Join(_, _)
        Join(items, i) ==
            IF i > Len(items) THEN ""
            ELSE (IF i > 1 THEN ", " ELSE "") \o Display(items[i], h) \o Join(items, i + 1)
        RECURSIVE Entries(_, _)
        Entries(d, i) ==
            IF i > Len(d) THEN ""
            ELSE (IF i > 1 THEN ", " ELSE "") \o "'" \o d[i][1] \o "': "
                 \o Display(d[i][2], h) \o Entries(d, i + 1)
        RECURSIVE Digits(_, _, _)
        Digits(r, d, k) ==
            IF r = 0 \/ k = 0 THEN ""
            ELSE ToString((10 * r) \div d) \o Digits((10 * r) % d, d, k - 1)
        Decimal(n, d) ==
            ToString(n \div d) \o (IF n % d = 0 THEN "" ELSE "." \o Digits(n % d, d, 17))
    IN  CASE v.t = "Int" -> ToString(v.i)
          [] v.t = "Float" ->
                IF v.den = 0
                THEN (IF v.num > 0 THEN "inf" ELSE IF v.num < 0 THEN "-inf" ELSE "NaN")
                ELSE IF v.num < 0 THEN "-" \o Decimal(-v.num, v.den)
                ELSE Decimal(v.num, v.den)
          [] v.t = "Bool" -> IF v.b THEN "true" ELSE "false"
          [] v.t = "Str" -> v.s
          [] v.t = "List" -> "[" \o Join(At(h, v.ref), 1) \o "]"
          [] v.t = "Dict" -> "{" \o Entries(At(h, v.ref), 1) \o "}"
          [] v.t = "Tuple" ->
                IF Len(v.items) = 1 THEN "(" \o Display(v.items[1], h) \o ",)"
                ELSE "(" \o Join(v.items, 1) \o ")"
          [] v.t = "Set" -> "{" \o Join(At(h, v.ref), 1) \o "}"
          [] v.t = "None" -> "None"
          [] v.t = "Function" -> "<function " \o v.name \o ">"
          [] v.t = "NativeFunction" -> "<native function " \o v.name \o ">"
          [] v.t \in {"Module", "NativeModule"} -> "<module '" \o v.name \o "'>"
          [] v.t = "Type" -> "<type " \o v.name \o ">"
          [] v.t = "Instance" -> "<" \o At(h, v.ref).class.name \o " object>"

\* (nf.func)(&args): the closure behind a NativeFunction, by its name.
\* sum2 is the host closure of tests::native_fn; a host closure registered
\* under a builtin's name ("type", arity 2) stands for any host native.
\* push is a host closure that does `l.borrow_mut().push(v)` on the
\* Rc<RefCell<Vec>> of its List argument and returns None.
NativeApply(nf, args) ==
    CASE nf.name = "print" -> NoneV
      [] nf.name = "set" -> [t |-> "Members", items |-> <<>>]
      [] nf.name = "type" /\ nf.arity = 1 ->     \* &args[0] of no arguments panics
            IF args = <<>> THEN Err("panic") ELSE TypeV(TypeName(args[1]))
      [] nf.name = "type" /\ nf.arity = 2 -> StrV("host")
      [] nf.name = "sum2" ->
            IF args[1].t = "Int" /\ args[2].t = "Int"
            THEN IntV(args[1].i + args[2].i)
            ELSE Err("bad args")
      [] nf.name = "push" ->
            IF args[1].t = "List" THEN [t |-> "Push", ref |-> args[1].ref, item |-> args[2]]
            ELSE Err("bad args")

\* The i64 range, and a sum wrapped into it as a build without overflow
\* checks wraps it.
MaxInt == 2 ^ (IntBits - 1) - 1
WrapInt(x) == ((x + MaxInt + 1) % (2 ^ IntBits)) - MaxInt - 1

\* The two loops of the range closure, `while i < stop` for a positive step
\* and `while i > stop` otherwise, each `items.push(Int(i)); i += step;`.
\* Where `i += step` leaves the i64 range a build with overflow checks
\* panics; a build without them wraps i and goes on, and once the List
\* holds more items than there are i64 values the loop never ends.
RECURSIVE range_items(_, _, _, _, _)
range_items(i, stop, step, items, checks) ==
    IF (step > 0 /\ i < stop) \/ (step <= 0 /\ i > stop)
    THEN IF Len(items) >= 2 ^ IntBits THEN Err("abort")
         ELSE IF checks /\ (i + step > MaxInt \/ i + step < -MaxInt - 1) THEN Err("panic")
         ELSE range_items(WrapInt(i + step), stop, step, Append(items, IntV(i)), checks)
    ELSE [t |-> "Items", items |-> items]

\* The `range` builtin: an error, or the items of the List it makes.
range(args, checks) ==
    IF Len(args) \notin 1..3 THEN Err("TypeError")
    ELSE IF \E i \in 1..Len(args) : args[i].t # "Int" THEN Err("TypeError")
    ELSE IF Len(args) = 1 THEN range_items(0, args[1].i, 1, <<>>, checks)
    ELSE IF Len(args) = 2 THEN range_items(args[1].i, args[2].i, 1, <<>>, checks)
    ELSE IF args[3].i = 0 THEN Err("ValueError")
    ELSE range_items(args[1].i, args[2].i, args[3].i, <<>>, checks)

\* What a call of the closure can produce: one outcome for every closure
\* but range, whose outcome depends on the build's overflow checks.
NativeOutcomes(nf, args) ==
    IF nf.name = "range" /\ nf.arity = UNBOUNDED
    THEN {range(args, TRUE), range(args, FALSE)}
    ELSE {NativeApply(nf, args)}

\* A faulty registration that inserts nothing.
register_natives_none(ns, globals) == globals

\* Vm::register_native for each (name, arity, closure) given to execute.
RECURSIVE register_natives(_, _)
register_natives(ns, globals) ==
    IF ns = <<>> THEN globals
    ELSE register_natives(Tail(ns),
            Insert(globals, Head(ns)[1], NativeFunctionV(Head(ns)[1], Head(ns)[2])))

\* Vm::register_native_module for each (name, dict) given to execute.
register_native_modules(nms) ==
    [n \in DOMAIN nms |-> NativeModuleV(n, nms[n])]

-----------------------------------------------------------------------------
(* Name lookup, calls *)

\* A faulty lookup order: globals consulted before locals.
LookupNameGlobalsFirst(e, name) ==
    IF name \in DOMAIN e.globals THEN e.globals[name]
    ELSE IF name \in DOMAIN e.locals THEN e.locals[name]
    ELSE IF name \in DOMAIN e.builtins THEN e.builtins[name]
    ELSE Err("NameError")

\* Op::LoadName: locals, then globals, then builtins.
LookupName(e, name) ==
    IF name \in DOMAIN e.locals THEN e.locals[name]
    ELSE IF name \in DOMAIN e.globals THEN e.globals[name]
    ELSE IF name \in DOMAIN e.builtins THEN e.builtins[name]
    ELSE Err("NameError")

\* Op::LoadGlobal: globals, then builtins.
LookupGlobal(e, name) ==
    IF name \in DOMAIN e.globals THEN e.globals[name]
    ELSE IF name \in DOMAIN e.builtins THEN e.builtins[name]
    ELSE Err("NameError")

Reverse(s) == [i \in 1..Len(s) |-> s[Len(s) - i + 1]]

\* `for _ in 0..argc { args.push(self.stack.pop()) }`: the top argc slots,
\* topmost first.
Popped(stk, argc) == [i \in 1..argc |-> stk[Len(stk) - i + 1]]

\* A faulty Call that forgets args.reverse().
PopArgsUnreversed(stk, argc) == Popped(stk, argc)

\* The arguments of a Call in source order: popped, then args.reverse().
PopArgs(stk, argc) == Reverse(Popped(stk, argc))

\* `fobj.arity != argc` and `nf.arity != usize::MAX && nf.arity != argc`
FunctionArityOk(fobj, argc) == fobj.arity = argc
\* A faulty check that knows no variadic sentinel.
NativeArityExact(nf, argc) == nf.arity = argc
NativeArityOk(nf, argc) == nf.arity = UNBOUNDED \/ nf.arity = argc

\* new_env of a call: the callee's first argc names bound to the arguments,
\* the globals captured by Def, the caller's builtins.
BindParams(names, args, argc) ==
    LET k == IF argc < Len(names) THEN argc ELSE Len(names)
    IN  [n \in {names[i] : i \in 1..k} |->
            args[CHOOSE i \in 1..k :
                    names[i] = n /\ \A j \in (i + 1)..k : names[j] # n]]

\* A faulty new_env that takes the globals of the call site.
CallEnvCallSite(fobj, args, argc, e) ==
    [locals |-> BindParams(fobj.code.names, args, argc),
     globals |-> e.globals,
     builtins |-> e.builtins]

CallEnv(fobj, args, argc, e) ==
    [locals |-> BindParams(fobj.code.names, args, argc),
     globals |-> fobj.globals.globals,
     builtins |-> e.builtins]

\* A faulty frame that resumes the caller past the instruction after the call.
CallFrameSkip(i, code, e) == [rip |-> i + 2, code |-> code, env |-> e]

\* The frame pushed by a call: (ip + 1, cur.clone(), the caller's env).
CallFrame(i, code, e) == [rip |-> i + 1, code |-> code, env |-> e]

-----------------------------------------------------------------------------
(* The programs run: what execute is given.  An input is [id, a, b]: a     *)
(* program of the catalogue and two integers it is parameterised with.     *)

Args == 0..MaxArg

ParamIds == {"function_call", "basic_arith", "native_fn", "fallthrough",
             "global_read", "leak", "variadic", "higher", "raw_globals",
             "if_plain", "if_else", "if_elif", "if_fn", "if_nested",
             "alias", "dict", "range_edge", "while_plain", "while_nested",
             "class_basic", "class_noinit", "class_scope", "method_builtin",
             "native_in_fn", "loop_return", "attr_shadow",
             "init_arity"}

PlainIds == {"empty", "transitive", "reimport", "native_mod", "missing",
             "import_err", "import_bad", "arity_fn", "arity_native", "not_callable",
             "shadow", "name_error", "host_type", "unsupported",
             "alias_iter", "dict_missing", "dict_badkey", "for_list", "for_tuple",
             "for_dict", "for_break", "for_nested_break", "range_bad", "range_argc",
             "class_init_ret", "class_init_value", "method_arity", "method_noargs",
             "attr_missing", "attr_store_bad", "class_body_err", "init_err",
             "index_call", "import_cycle", "import_self"}

\* The operands of the arithmetic and of the branching programs: a literal of
\* each scalar variant, zero and non-zero, then an expression for each other
\* variant, empty and non-empty.  f, C and mb are bound by the branching
\* programs before the operand is evaluated.
Operands ==
    <<NumberLiteral(1), NumberLiteral(2), NumberLiteral(0), FloatLiteral(1, 2),
      FloatLiteral(0, 1), StringLiteral("a"), NoneLiteral, BooleanLiteral(TRUE),
      StringLiteral(""), BooleanLiteral(FALSE),
      List(<<>>), List(<<NumberLiteral(0)>>),
      Dict(<<>>), Dict(<<<<StringLiteral("k"), NumberLiteral(0)>>>>),
      Tuple(<<>>), Tuple(<<NumberLiteral(0)>>),
      Call(Name("set"), <<>>), Set(<<NumberLiteral(0), NumberLiteral(0)>>),
      Set(<<List(<<>>)>>),
      Name("f"), Name("print"), Call(Name("C"), <<>>), Name("mb"),
      Call(Name("type"), <<NumberLiteral(0)>>)>>


\* The indexing programs index a sequence of SeqLen items at a, from one
\* below the least index that counts from the end to one past the last; the
\* range programs call range with 1, 2 or 3 of the integers a, b, c.
\* The arithmetic programs take the operands that are literals of a scalar
\* variant; the branching programs take every operand (c = 0) or none (c = 1).
Inputs ==
    LET ScalarOperands ==
            {a \in DOMAIN Operands :
                Operands[a].k \in {"NumberLiteral", "StringLiteral", "NoneLiteral",
                                   "BooleanLiteral"}}
    IN
    {[id |-> i, a |-> a, b |-> b, c |-> 0] : i \in ParamIds, a \in Args, b \in Args}
    \cup {[id |-> i, a |-> 0, b |-> 0, c |-> 0] : i \in PlainIds}
    \cup {[id |-> i, a |-> a, b |-> 0, c |-> 0] :
                i \in {"list_load", "list_store", "tuple_load", "tuple_store"},
                a \in (-(SeqLen + 1))..SeqLen}
    \cup {[id |-> "arith", a |-> a, b |-> b, c |-> c] :
                a \in ScalarOperands, b \in ScalarOperands, c \in 1..4}
    \cup {[id |-> "unary", a |-> a, b |-> 0, c |-> c] : a \in ScalarOperands, c \in 1..2}
    \cup {[id |-> "raw_jump", a |-> a, b |-> b, c |-> 0] :
                a \in DOMAIN Operands, b \in {0, 1}}
    \cup {[id |-> "raw_jump", a |-> 1, b |-> b, c |-> 1] : b \in {0, 1}}
    \cup {[id |-> "raw_iter", a |-> 0, b |-> 0, c |-> 0]}
    \cup {[id |-> "for_push", a |-> a, b |-> b, c |-> 0] : a \in 0..SeqLen, b \in Args}
    \cup {[id |-> "raw_method", a |-> a, b |-> b, c |-> c] :
                a \in 1..6, b \in {0, 1}, c \in 0..2}
    \cup {[id |-> "display", a |-> a, b |-> 0, c |-> 0] : a \in DOMAIN Operands}
    \cup {inp \in [id : {"display"}, a : ScalarOperands, b : ScalarOperands, c : 1..3] :
                /\ Operands[inp.a].k = "NumberLiteral"
                /\ Operands[inp.b].k = "NumberLiteral"
                /\ inp.c = 3 => inp.b = inp.a}
    \cup {inp \in [id : {"range1", "range2", "range3"}, a : (-MaxRange)..MaxRange,
                   b : (-MaxRange)..MaxRange, c : (-MaxRange)..MaxRange] :
                /\ inp.id = "range1" => inp.b = 0
                /\ inp.id # "range3" => inp.c = 0}

\* parse(source, Mode::Module) on the text of one expression, or on no text:
\* the module body the Python grammar reads it as.  The texts read are those
\* of the scalar operands, of a name, and of a list or tuple display of up
\* to two numbers, written as Python writes them.
parse(text) ==
    LET Literals ==
            {Operands[a] : a \in {b \in DOMAIN Operands :
                Operands[b].k \in {"NumberLiteral", "StringLiteral", "NoneLiteral",
                                   "BooleanLiteral"}}}
        Numbers == {e \in Literals : e.k = "NumberLiteral"}
        Names == {Name(n) : n \in {"a", "true", "false"}}
        Elts == UNION {[1..n -> Numbers] : n \in 0..2}
        Exprs == Literals \cup Names \cup {List(es) : es \in Elts}
                    \cup {Tuple(es) : es \in Elts}
        RECURSIVE Text(_)
        Text(e) ==
            LET Join(es) ==
                    IF es = <<>> THEN ""
                    ELSE IF Len(es) = 1 THEN Text(es[1])
                    ELSE Text(es[1]) \o ", " \o Text(es[2])
            IN  CASE e.k = "NumberLiteral" ->
                        IF e.is_int THEN ToString(e.value)
                        ELSE ToString(e.value[1] \div e.value[2]) \o "."
                             \o ToString((10 * (e.value[1] % e.value[2])) \div e.value[2])
                  [] e.k = "BooleanLiteral" -> IF e.value THEN "True" ELSE "False"
                  [] e.k = "NoneLiteral" -> "None"
                  [] e.k = "StringLiteral" -> "'" \o e.value \o "'"
                  [] e.k = "Name" -> e.id
                  [] e.k = "List" -> "[" \o Join(e.elts) \o "]"
                  [] e.k = "Tuple" ->
                        IF Len(e.elts) = 1 THEN "(" \o Text(e.elts[1]) \o ",)"
                        ELSE "(" \o Join(e.elts) \o ")"
    IN  IF text = "" THEN <<>>
        ELSE <<ExprStmt(CHOOSE e \in Exprs : Text(e) = text)>>

\* An integer as the parser gives it: a literal, negated when below zero.
IntLit(i) == IF i < 0 THEN UnaryOp("USub", NumberLiteral(-i)) ELSE NumberLiteral(i)

\* The parsed source text handed to execute.
Source(inp) ==
    LET A == NumberLiteral(inp.a)
        B == NumberLiteral(inp.b)
        N(i) == NumberLiteral(i)
        Items == [j \in 1..SeqLen |-> NumberLiteral(9 + j)]
        Letters == <<StringLiteral("a"), StringLiteral("b"), StringLiteral("c")>>
    IN
    CASE inp.id = "function_call" ->    \* tests::function_call
            <<FunctionDef("add", <<"a", "b">>,
                  <<Return(BinOp(Name("a"), "Add", Name("b")))>>),
              ExprStmt(Call(Name("add"), <<A, B>>))>>
      [] inp.id = "basic_arith" ->      \* tests::basic_arith
            <<Assign(Name("x"), BinOp(A, "Add", B)), ExprStmt(Name("x"))>>
      [] inp.id = "empty" -> <<>>       \* tests::empty
      [] inp.id = "native_fn" ->        \* tests::native_fn
            <<ExprStmt(Call(Name("sum2"), <<A, B>>))>>
      [] inp.id = "fallthrough" ->      \* a body that ends without return
            <<FunctionDef("f", <<>>, <<ExprStmt(A)>>),
              ExprStmt(Call(Name("f"), <<>>)),
              ExprStmt(N(5))>>
      [] inp.id = "global_read" ->      \* a body reading a top-level name
            <<Assign(Name("x"), A),
              FunctionDef("f", <<>>, <<Return(Name("x"))>>),
              ExprStmt(Call(Name("f"), <<>>))>>
      [] inp.id = "leak" ->             \* an expression statement in a body
            <<ExprStmt(N(5)),
              FunctionDef("g", <<>>, <<ExprStmt(N(7)), Return(A)>>),
              Assign(Name("y"), Call(Name("g"), <<>>))>>
      [] inp.id = "variadic" ->
            <<ExprStmt(Call(Name("print"), <<A, B, N(3)>>)),
              ExprStmt(Call(Name("print"), <<>>)),
              ExprStmt(Call(Name("type"), <<A>>))>>
      [] inp.id = "higher" ->           \* nested calls, three parameters
            <<FunctionDef("ap", <<"f", "u", "v">>,
                  <<Return(Call(Name("f"), <<Name("v"), Name("u")>>))>>),
              FunctionDef("first", <<"p", "q">>,
                  <<Assign(Name("q"), Name("p")), Return(Name("q"))>>),
              Assign(Name("q"), N(9)),
              ExprStmt(Call(Name("ap"), <<Name("first"), A, B>>)),
              ExprStmt(Name("q"))>>
      [] inp.id = "transitive" ->
            <<Import("ma"), Import("mb"), ExprStmt(Name("mb"))>>
      [] inp.id = "import_cycle" -> <<Import("ca"), ExprStmt(Name("ca"))>>
      [] inp.id = "import_self" -> <<Import("cs"), ExprStmt(Name("cs"))>>
      [] inp.id = "reimport" ->
            <<Import("mb"), Import("mb"), ImportFromStmt("mb", <<"b">>),
              ImportStarStmt("mb"), ExprStmt(Name("c"))>>
      [] inp.id = "native_mod" ->
            <<Import("nm"), ImportFromStmt("nm", <<"k">>), ImportStarStmt("nm"),
              ImportFromStmt("mb", <<"b", "c">>), ImportStarStmt("ma"),
              ExprStmt(Name("k"))>>
      [] inp.id = "missing" -> <<Import("nope")>>
      [] inp.id = "import_err" -> <<ImportFromStmt("mb", <<"b", "zz">>)>>
      [] inp.id = "import_bad" -> <<Import("mb"), ImportStarStmt("bad")>>
      [] inp.id = "arity_fn" ->
            <<FunctionDef("f", <<"a">>, <<Return(Name("a"))>>),
              ExprStmt(Call(Name("print"), <<N(1), N(2), N(3)>>)),
              ExprStmt(Call(Name("f"), <<N(1), N(2)>>))>>
      [] inp.id = "arity_native" ->
            <<ExprStmt(Call(Name("sum2"), <<N(1)>>))>>
      [] inp.id = "not_callable" ->
            <<Assign(Name("x"), N(1)), ExprStmt(Call(Name("x"), <<N(2)>>))>>
      [] inp.id = "shadow" ->           \* a callee assigning a caller's name
            <<Assign(Name("x"), N(1)),
              FunctionDef("f", <<"y">>,
                  <<Assign(Name("x"), Name("y")), Return(Name("x"))>>),
              ExprStmt(Call(Name("f"), <<N(5)>>)),
              Assign(Name("print"), Name("x")),
              ExprStmt(Name("print"))>>
      [] inp.id = "name_error" -> <<ExprStmt(Name("y"))>>
      [] inp.id = "host_type" ->        \* a host native named like a builtin
            <<ExprStmt(Call(Name("type"), <<N(1), N(2)>>))>>
      [] inp.id = "unsupported" -> <<Pass>>
      [] inp.id = "if_plain" ->
            <<If(A, <<Assign(Name("m1"), N(1))>>, <<>>), ExprStmt(B)>>
      [] inp.id = "if_else" ->
            <<If(A, <<Assign(Name("m1"), N(1))>>,
                    <<Clause(FALSE, NoneLiteral, <<Assign(Name("m3"), N(1))>>)>>)>>
      [] inp.id = "if_elif" ->
            <<If(A, <<Assign(Name("m1"), N(1))>>,
                    <<Clause(TRUE, B, <<Assign(Name("m2"), N(1))>>),
                      Clause(FALSE, NoneLiteral, <<Assign(Name("m3"), N(1))>>)>>),
              ExprStmt(N(0))>>
      [] inp.id = "if_fn" ->            \* an if that ends a body
            <<FunctionDef("f", <<"c">>, <<If(Name("c"), <<Return(B)>>, <<>>)>>),
              ExprStmt(Call(Name("f"), <<A>>))>>
      [] inp.id = "if_nested" ->        \* an if that ends an if that ends the module
            <<If(A, <<Assign(Name("m1"), N(1)),
                      If(B, <<Assign(Name("m2"), N(1))>>, <<>>)>>, <<>>)>>
      [] inp.id = "alias" ->            \* one List under several bindings
            <<Assign(Name("a"), List(<<A, N(0)>>)),
              Assign(Name("b"), Name("a")),
              FunctionDef("f", <<"l">>,
                  <<Assign(Subscript(Name("l"), N(1)), N(7)), Return(Name("l"))>>),
              Assign(Name("c"), Call(Name("f"), <<Name("b")>>)),
              Assign(Name("t"), Tuple(<<Name("a"), List(<<Name("b")>>)>>)),
              Assign(Subscript(Name("c"), N(0)), BinOp(B, "Add", N(8))),
              ExprStmt(BinOp(BinOp(Subscript(Name("a"), N(0)), "Add",
                                   Subscript(Name("b"), N(1))), "Add",
                             BinOp(Subscript(Subscript(Name("t"), N(0)), N(0)), "Add",
                                   Subscript(Subscript(Subscript(Name("t"), N(1)),
                                                       N(0)), N(1)))))>>
      [] inp.id = "alias_iter" ->       \* a List written while a loop reads it
            <<Assign(Name("a"), List(<<N(1), N(2)>>)),
              Assign(Name("b"), Name("a")),
              Assign(Name("s"), N(0)),
              For("x", Name("a"),
                  <<Assign(Subscript(Name("b"), N(1)), N(5)),
                    Assign(Name("s"), BinOp(Name("s"), "Add", Name("x")))>>),
              ExprStmt(Name("s"))>>
      [] inp.id = "dict" ->
            <<Assign(Name("d"), Dict(<<<<StringLiteral("x"), A>>,
                                       <<StringLiteral("y"), N(1)>>,
                                       <<StringLiteral("x"), N(2)>>>>)),
              Assign(Name("e"), Name("d")),
              Assign(Subscript(Name("d"), StringLiteral("y")), N(5)),
              Assign(Subscript(Name("e"), StringLiteral("z")), B),
              Assign(Subscript(Name("d"), StringLiteral("x")), N(3)),
              ExprStmt(Subscript(Name("d"),
                                 StringLiteral(IF inp.a = 0 THEN "x" ELSE "z")))>>
      [] inp.id = "dict_missing" ->
            <<Assign(Name("d"), Dict(<<<<StringLiteral("x"), N(1)>>>>)),
              ExprStmt(Subscript(Name("d"), StringLiteral("q")))>>
      [] inp.id = "dict_badkey" ->
            <<ExprStmt(Dict(<<<<N(1), N(2)>>>>))>>
      [] inp.id \in {"list_load", "tuple_load"} ->
            <<Assign(Name("q"), IF inp.id = "list_load" THEN List(Items)
                                ELSE Tuple(Items)),
              ExprStmt(Subscript(Name("q"), IntLit(inp.a)))>>
      [] inp.id \in {"list_store", "tuple_store"} ->
            <<Assign(Name("q"), IF inp.id = "list_store" THEN List(Items)
                                ELSE Tuple(Items)),
              Assign(Subscript(Name("q"), IntLit(inp.a)), N(99)),
              ExprStmt(Name("q"))>>
      [] inp.id = "range1" ->
            <<ExprStmt(Call(Name("range"), <<IntLit(inp.a)>>))>>
      [] inp.id = "range2" ->
            <<ExprStmt(Call(Name("range"), <<IntLit(inp.a), IntLit(inp.b)>>))>>
      [] inp.id = "range3" ->
            <<ExprStmt(Call(Name("range"),
                            <<IntLit(inp.a), IntLit(inp.b), IntLit(inp.c)>>))>>
      [] inp.id = "range_edge" ->       \* a range that ends at the largest Int
            <<ExprStmt(Call(Name("range"),
                            <<N(MaxInt - inp.a), N(MaxInt), N(1 + inp.b)>>))>>
      [] inp.id = "range_bad" ->
            <<ExprStmt(Call(Name("range"), <<N(0), StringLiteral("x")>>))>>
      [] inp.id = "range_argc" ->
            <<ExprStmt(Call(Name("range"), <<N(0), N(1), N(1), N(1)>>))>>
      [] inp.id \in {"for_list", "for_tuple", "for_dict"} ->
            <<Assign(Name("s"), StringLiteral("")),
              For("x", CASE inp.id = "for_list" -> List(Letters)
                         [] inp.id = "for_tuple" -> Tuple(Letters)
                         [] inp.id = "for_dict" ->
                                Dict([i \in 1..Len(Letters) |-> <<Letters[i], N(i)>>]),
                  <<Assign(Name("s"), BinOp(Name("s"), "Add", Name("x")))>>),
              ExprStmt(Name("s"))>>
      [] inp.id = "while_plain" ->      \* left by the test, a break or a continue
            <<Assign(Name("x"), A),
              While(Name("x"),
                    <<Assign(Name("x"), N(0)),
                      If(B, <<Break>>, <<Clause(FALSE, NoneLiteral, <<Continue>>)>>)>>),
              ExprStmt(Name("x"))>>
      [] inp.id = "while_nested" ->     \* an inner loop left by break or its test
            <<Assign(Name("x"), N(1)),
              While(Name("x"),
                    <<Assign(Name("y"), N(1)),
                      While(Name("y"),
                            <<If(A, <<Break>>,
                                 <<Clause(FALSE, NoneLiteral,
                                          <<Assign(Name("y"), N(0))>>)>>)>>),
                      Assign(Name("x"), N(0)),
                      If(B, <<Break>>, <<Clause(FALSE, NoneLiteral, <<Continue>>)>>)>>),
              ExprStmt(Name("x"))>>
      [] inp.id = "class_basic" ->      \* two instances of a class with __init__
            <<ClassDef("C",
                  <<FunctionDef("__init__", <<"self", "v">>,
                        <<Assign(Attribute(Name("self"), "x"), Name("v"))>>),
                    FunctionDef("get", <<"self">>,
                        <<Return(Attribute(Name("self"), "x"))>>)>>),
              Assign(Name("c"), Call(Name("C"), <<A>>)),
              Assign(Name("d"), Call(Name("C"), <<B>>)),
              Assign(Attribute(Name("d"), "y"), N(7)),
              ExprStmt(Call(Attribute(Name("c"), "get"), <<>>))>>
      [] inp.id = "class_init_ret" ->   \* __init__ returns a value of its own
            <<ClassDef("C",
                  <<FunctionDef("__init__", <<"self">>,
                        <<Assign(Attribute(Name("self"), "x"), N(1)),
                          Return(N(5))>>)>>),
              ExprStmt(Attribute(Call(Name("C"), <<>>), "x"))>>
      [] inp.id = "class_init_value" -> \* __init__ is not a Function
            <<ClassDef("C", <<Assign(Name("__init__"), N(5))>>),
              ExprStmt(Attribute(Call(Name("C"), <<N(1)>>), "__init__"))>>
      [] inp.id = "class_noinit" ->     \* a class without __init__
            <<ClassDef("P", <<FunctionDef("get", <<"self">>, <<Return(N(1))>>)>>),
              Assign(Name("p"), Call(Name("P"), <<>>)),
              Assign(Attribute(Name("p"), "y"), A),
              ExprStmt(IF inp.b = 0 THEN Attribute(Name("p"), "y")
                       ELSE Call(Attribute(Name("p"), "get"), <<>>))>>
      [] inp.id = "class_scope" ->      \* a name of the enclosing scope, read as an attribute
            <<Assign(Name("x"), A),
              ClassDef("C", <<FunctionDef("get", <<"self">>, <<Return(N(1))>>)>>),
              Assign(Name("c"), Call(Name("C"), <<>>)),
              ExprStmt(Attribute(IF inp.b = 0 THEN Name("c") ELSE Call(Name("C"), <<>>),
                                 "x"))>>
      [] inp.id = "method_builtin" ->   \* a method body that names a builtin
            <<FunctionDef("kind", <<"self", "v">>,
                  <<Return(Call(Name("type"), <<Name("v")>>))>>),
              ClassDef("C",
                  <<FunctionDef("kind", <<"self", "v">>,
                        <<Return(Call(Name("type"), <<Name("v")>>))>>)>>),
              Assign(Name("c"), Call(Name("C"), <<>>)),
              ExprStmt(IF inp.b = 0 THEN Call(Name("kind"), <<Name("c"), A>>)
                       ELSE Call(Attribute(Name("c"), "kind"), <<A>>))>>
      [] inp.id = "method_arity" ->     \* a bound method called with a surplus argument
            <<ClassDef("C", <<FunctionDef("get", <<"self">>, <<Return(N(1))>>)>>),
              ExprStmt(Call(Attribute(Call(Name("C"), <<>>), "get"), <<N(2)>>))>>
      [] inp.id = "method_noargs" ->    \* a method defined with no parameter
            <<ClassDef("C", <<FunctionDef("f", <<>>, <<Return(N(1))>>)>>),
              ExprStmt(Call(Attribute(Call(Name("C"), <<>>), "f"), <<>>))>>
      [] inp.id = "attr_missing" ->
            <<ClassDef("C", <<FunctionDef("get", <<"self">>, <<Return(N(1))>>)>>),
              ExprStmt(Attribute(Call(Name("C"), <<>>), "nope"))>>
      [] inp.id = "attr_shadow" ->      \* attributes named like entries of the class
            <<ClassDef("C", <<Assign(Name("k"), N(1)),
                              FunctionDef("get", <<"self">>, <<Return(N(2))>>)>>),
              Assign(Name("c"), Call(Name("C"), <<>>)),
              Assign(Name("d"), Call(Name("C"), <<>>)),
              Assign(Attribute(Name("c"), "k"), N(5)),
              Assign(Attribute(Name("c"), "get"), N(6)),
              ExprStmt(IF inp.a = 0
                       THEN Attribute(IF inp.b = 0 THEN Name("c") ELSE Name("d"), "k")
                       ELSE IF inp.b = 0 THEN Attribute(Name("c"), "get")
                       ELSE Call(Attribute(Name("d"), "get"), <<>>))>>
      [] inp.id = "init_arity" ->       \* a constructor called with a arguments
            <<ClassDef("C",
                  <<FunctionDef("__init__", <<"self", "v">>,
                        <<Assign(Attribute(Name("self"), "x"), N(1))>>)>>),
              Assign(Name("c"), Call(Name("C"), [i \in 1..inp.a |-> N(7)])),
              ExprStmt(Attribute(Name("c"), "x"))>>
      [] inp.id = "class_body_err" ->   \* an error in a class body
            <<ClassDef("C", <<Assign(Name("k"), Name("nope"))>>),
              ExprStmt(N(1))>>
      [] inp.id = "init_err" ->         \* an error in __init__ after a store
            <<ClassDef("C",
                  <<FunctionDef("__init__", <<"self">>,
                        <<Assign(Attribute(Name("self"), "x"), N(1)),
                          Return(BinOp(N(1), "Add", StringLiteral("a")))>>)>>),
              Assign(Name("c"), Call(Name("C"), <<>>)),
              ExprStmt(N(1))>>
      [] inp.id = "native_in_fn" ->     \* a host native called in a function body
            <<FunctionDef("f", <<"p", "q">>,
                  <<Return(Call(Name("sum2"), <<Name("q"), Name("p")>>))>>),
              ExprStmt(Call(Name("f"), <<A, B>>))>>
      [] inp.id = "arith" ->            \* one binary operator on two operands
            <<ExprStmt(BinOp(Operands[inp.a],
                             <<"Add", "Sub", "Mult", "Div">>[inp.c],
                             Operands[inp.b]))>>
      [] inp.id = "display" ->          \* print an operand, or a container of two
            <<FunctionDef("f", <<>>, <<Return(N(1))>>),
              ClassDef("C", <<Assign(Name("k"), N(1))>>),
              Import("mb"),
              ExprStmt(Call(Name("print"),
                  <<CASE inp.c = 0 -> Operands[inp.a]
                      [] inp.c = 1 -> List(<<Operands[inp.a], Operands[inp.b]>>)
                      [] inp.c = 2 -> Tuple(<<Operands[inp.a], Operands[inp.b]>>)
                      [] inp.c = 3 -> Tuple(<<Operands[inp.a]>>)>>))>>
      [] inp.id = "unary" ->
            <<ExprStmt(UnaryOp(<<"USub", "UAdd">>[inp.c], Operands[inp.a]))>>
      [] inp.id = "attr_store_bad" ->
            <<Assign(Attribute(N(1), "x"), N(2))>>
      [] inp.id = "loop_return" ->      \* a return in a loop body of the callee
            LET f == FunctionDef("f", <<>>,
                        <<IF inp.a = 0 THEN While(N(1), <<Return(N(7))>>)
                          ELSE For("x", List(<<N(7), N(8)>>), <<Return(Name("x"))>>)>>)
                call == Assign(Name("y"), Call(Name("f"), <<>>))
            IN  IF inp.b = 0 THEN <<f, call, ExprStmt(Name("y"))>>
                ELSE <<f, While(N(1), <<call, Break>>), ExprStmt(Name("y"))>>
      [] inp.id = "for_push" ->         \* a List of a elements that grows while read
            <<Assign(Name("l"), List([i \in 1..inp.a |-> B])),
              Assign(Name("n"), N(0)),
              For("x", Name("l"),
                  <<Assign(Name("n"), BinOp(Name("n"), "Add", N(1))),
                    If(Name("x"), <<ExprStmt(Call(Name("push"), <<Name("l"), N(0)>>))>>,
                       <<>>)>>),
              ExprStmt(Name("n"))>>
      [] inp.id = "index_call" ->       \* an index assignment whose value is a call
            <<FunctionDef("f", <<>>, <<Return(N(1))>>),
              Assign(Name("l"), List(<<N(0)>>)),
              Assign(Subscript(Name("l"), N(0)), Call(Name("f"), <<>>))>>
      [] inp.id = "for_break" ->
            <<For("x", List(<<N(1), N(2)>>), <<Break>>), ExprStmt(Name("x"))>>
      [] inp.id = "for_nested_break" -> \* a break in the inner of two loops
            <<Assign(Name("s"), N(0)),
              For("x", List(<<N(1), N(2)>>),
                  <<For("y", List(<<N(10)>>), <<Break>>),
                    Assign(Name("s"), BinOp(Name("s"), "Add", Name("x")))>>),
              ExprStmt(Name("s"))>>

\* A hand-assembled CodeObject given to Vm::run: the compiler never emits
\* StoreGlobal, LoadGlobal or Pop.
\*   g := 1 (global); def f(): return g; g := 2 (global); def h(f): return f()
\*   h(f); g = 5 (local); LoadGlobal g; Pop; LoadName g; Pop;
\*   then Return (b = 0) or LoadGlobal f (b = 1)
RawGlobals(inp) ==
    LET fcode == [CodeObjectDefault EXCEPT
                    !.names = <<"g">>,
                    !.instructions = <<Op1("LoadName", 0), Op0("Return")>>]
        hcode == [CodeObjectDefault EXCEPT
                    !.names = <<"f", "g">>,
                    !.consts = <<IntV(7)>>,
                    !.instructions = <<Op1("LoadConst", 0), Op1("StoreGlobal", 1),
                                       Op1("LoadName", 0), Op1("Call", 0),
                                       Op0("Return")>>]
    IN  [consts |-> <<IntV(inp.a), IntV(2), IntV(5)>>,
         names |-> <<"g", "f", "h", "print">>,
         nested |-> <<fcode, hcode>>,
         instructions |->
            <<Op1("LoadConst", 0), Op1("StoreGlobal", 0), DefOp(1, 0, 0),
              Op1("LoadConst", 1), Op1("StoreGlobal", 0), DefOp(2, 1, 1),
              Op1("LoadName", 2), Op1("LoadName", 1), Op1("Call", 1),
              Op1("LoadConst", 2), Op1("StoreName", 0),
              Op1("LoadGlobal", 0), Op0("Pop"),
              Op1("LoadName", 0), Op0("Pop"),
              Op1("LoadGlobal", 3), Op0("Pop"),
              IF inp.b = 0 THEN Op0("Return") ELSE Op1("LoadGlobal", 1)>>]

\* Hand-assembled CodeObjects given to Vm::run, for what the compiler never
\* emits: JumpIfTrue (and JumpIfFalse on any operand), CallMethod, a ForIter
\* that no GetIter precedes.
\* raw_jump:
\*   def f(): return 1; class C: k = 1; import mb;
\*   <operand a>  (c = 1: nothing, the jump finds the stack empty)
\*   JumpIfFalse L (b = 0) or JumpIfTrue L (b = 1)
\*   LoadConst 0; Return;  L: LoadConst 1; Return
\* raw_method:
\*   def f(): return 1; class C: k = 1;
\*   <callee a>; c times LoadConst 0; Call c (b = 0) or CallMethod c (b = 1);
\*   Return
\* raw_iter:
\*   ForIter 2; Return; LoadConst 0; Return
RawCode(inp) ==
    LET Prelude == <<FunctionDef("f", <<>>, <<Return(NumberLiteral(1))>>),
                     ClassDef("C", <<Assign(Name("k"), NumberLiteral(1))>>)>>
        Jumps(e, zero, one) ==
            [one.code EXCEPT !.instructions =
                @ \o <<Op1(IF inp.b = 0 THEN "JumpIfFalse" ELSE "JumpIfTrue",
                           Len(e.instructions) + 3),
                       Op1("LoadConst", zero.i), Op0("Return"),
                       Op1("LoadConst", one.i), Op0("Return")>>]
        Consts(e, zero) == Jumps(e, zero, const_index(zero.code, IntV(1)))
        Operand(e) == Consts(e, const_index(e, IntV(0)))
        Bound(pre) ==
            Operand(IF inp.c = 1 THEN pre.code
                    ELSE compile_expr(Operands[inp.a], pre.code).code)
        Callees == <<Name("f"), Name("type"), Name("set"), Name("print"), Name("C"),
                     NumberLiteral(1)>>
        Called(e) ==
            [e EXCEPT !.instructions =
                @ \o <<Op1(IF inp.b = 0 THEN "Call" ELSE "CallMethod", inp.c),
                       Op0("Return")>>]
        Pushed(pre) ==
            Called(compile_exprs([i \in 1..(1 + inp.c) |->
                                     IF i = 1 THEN Callees[inp.a] ELSE NumberLiteral(0)],
                                 pre.code).code)
    IN  CASE inp.id = "raw_jump" ->
                Bound(compile_stmts(Append(Prelude, Import("mb")), CodeObjectDefault))
          [] inp.id = "raw_method" ->
                Pushed(compile_stmts(Prelude, CodeObjectDefault))
          [] inp.id = "raw_iter" ->
                [CodeObjectDefault EXCEPT
                    !.consts = <<IntV(0)>>,
                    !.instructions = <<Op1("ForIter", 2), Op0("Return"),
                                       Op1("LoadConst", 0), Op0("Return")>>]

\* The working directory: <name>.py for each file module.
Files ==
    [n \in {"ma", "mb", "bad", "ca", "cb", "cs"} |->
        IF n = "ma"
        THEN <<Import("mb"), Assign(Name("a"), NumberLiteral(1))>>
        ELSE IF n \in {"ca", "cb", "cs"}  \* ca and cb import each other, cs itself
        THEN <<Import(CASE n = "ca" -> "cb" [] n = "cb" -> "ca" [] OTHER -> "cs"),
               Assign(Name("k"), NumberLiteral(1))>>
        ELSE IF n = "bad"
        THEN <<Import("ma"), ExprStmt(Name("undefined"))>>
        ELSE <<Assign(Name("b"), NumberLiteral(2)),
               Assign(Name("_p"), NumberLiteral(3)),
               Assign(Name("c"), NumberLiteral(4)),
               ExprStmt(Name("b"))>>]

\* name.starts_with('_'), over the names the programs bind.
StartsWithUnderscore(name) == name \in {"_p", "_h"}

\* The natives and native modules given to execute.
Natives(inp) ==
    CASE inp.id \in {"native_fn", "arity_native", "native_in_fn"} -> <<<<"sum2", 2>>>>
      [] inp.id = "host_type" -> <<<<"type", 2>>>>
      [] inp.id = "for_push" -> <<<<"push", 2>>>>
      [] OTHER -> <<>>

NativeModules(inp) ==
    IF inp.id = "native_mod"
    THEN [n \in {"nm"} |-> [x \in {"k", "_h"} |-> IntV(IF x = "k" THEN 8 ELSE 9)]]
    ELSE EmptyMap

-----------------------------------------------------------------------------
(* execute: compile, build the VM, register the natives, run *)

MainCode(inp) ==
    CASE inp.id = "raw_globals" -> Ok(RawGlobals(inp))
      [] inp.id \in {"raw_jump", "raw_method", "raw_iter"} -> Ok(RawCode(inp))
      [] OTHER -> compile(Source(inp))

Init ==
    \E inp \in Inputs :
        /\ input = inp
        /\ cur = MainCode(inp).code
        /\ result = IF MainCode(inp).err = "" THEN Pending ELSE Err(MainCode(inp).err)
        /\ ip = 0
        /\ frames = <<>>
        /\ stack = <<>>
        /\ env = [locals |-> EmptyMap,
                  globals |-> register_natives(Natives(inp), EmptyMap),
                  builtins |-> Builtins]
        /\ loop_stack = <<>>
        /\ iter_stack = <<>>
        /\ modules = register_native_modules(NativeModules(inp))
        /\ callers = <<>>
        /\ fs_reads = <<>>
        /\ body_runs = <<>>
        /\ native_calls = <<>>
        /\ fn_calls = <<>>
        /\ heap = <<>>

-----------------------------------------------------------------------------
(* Vm::run: one action per handler of the dispatch loop *)

hostVars == <<fs_reads, body_runs, native_calls, fn_calls, input>>
loopVars == <<loop_stack, iter_stack>>

Running == result = Pending
Instr == At(cur.instructions, ip)
Fetch(o) == Running /\ ip < Len(cur.instructions) /\ Instr.op = o

\* A faulty handler that drops its error and goes on with the next instruction.
RaiseAndGoOn(msg, stk) ==
    /\ stack' = stk
    /\ ip' = ip + 1
    /\ UNCHANGED <<env, loopVars, modules, result, frames, cur, callers, hostVars, heap>>

\* `return Err(..)` from run with the operand stack as the handler left it.
Raise(msg, stk) ==
    /\ result' = Err(msg)
    /\ stack' = stk
    /\ UNCHANGED <<env, loopVars, modules, ip, frames, cur, callers, hostVars, heap>>

\* `ip += 1` with the operand stack and the env as the handler left them.
Advance(stk, e) ==
    /\ stack' = stk
    /\ env' = e
    /\ ip' = ip + 1
    /\ UNCHANGED <<loopVars, modules, frames, cur, result, callers, hostVars, heap>>

\* `if ip >= cur.instructions.len() { return Ok(PyObject::None); }`
EndOfCode ==
    /\ Running
    /\ ip >= Len(cur.instructions)
    /\ result' = NoneV
    /\ UNCHANGED <<stack, env, loopVars, modules, ip, frames, cur, callers, hostVars, heap>>

OpLoadConst ==
    /\ Fetch("LoadConst")
    /\ Advance(Append(stack, At(cur.consts, Instr.arg)), env)

OpLoadName ==
    /\ Fetch("LoadName")
    /\ LET v == LookupName(env, At(cur.names, Instr.arg))
       IN  IF v.t = "Err" THEN Raise(v.msg, stack)
           ELSE Advance(Append(stack, v), env)

OpStoreName ==
    /\ Fetch("StoreName")
    /\ IF stack = <<>> THEN Raise("stack underflow", stack)
       ELSE Advance(Front(stack),
                [env EXCEPT !.locals = Insert(@, At(cur.names, Instr.arg), Last(stack))])

OpLoadGlobal ==
    /\ Fetch("LoadGlobal")
    /\ LET v == LookupGlobal(env, At(cur.names, Instr.arg))
       IN  IF v.t = "Err" THEN Raise(v.msg, stack)
           ELSE Advance(Append(stack, v), env)

OpStoreGlobal ==
    /\ Fetch("StoreGlobal")
    /\ IF stack = <<>> THEN Raise("stack underflow", stack)
       ELSE Advance(Front(stack),
                [env EXCEPT !.globals = Insert(@, At(cur.names, Instr.arg), Last(stack))])

OpPop ==
    /\ Fetch("Pop")
    /\ Advance(IF stack = <<>> THEN stack ELSE Front(stack), env)

OpReturn ==
    /\ Fetch("Return")
    /\ LET ret == IF stack = <<>> THEN NoneV ELSE Last(stack)
           rest == IF stack = <<>> THEN stack ELSE Front(stack)
       IN  IF frames # <<>>
           THEN /\ env' = Last(frames).env
                /\ cur' = Last(frames).code
                /\ ip' = Last(frames).rip
                /\ frames' = Front(frames)
                /\ stack' = Append(rest, ret)
                /\ UNCHANGED <<loopVars, modules, result, callers, hostVars, heap>>
           ELSE /\ result' = ret
                /\ stack' = rest
                /\ UNCHANGED <<env, loopVars, modules, ip, frames, cur, callers, hostVars, heap>>

\* `ip += 1` after a handler that wrote a cell of the heap or made a new one.
AdvanceHeap(stk, h) ==
    /\ stack' = stk
    /\ heap' = h
    /\ ip' = ip + 1
    /\ UNCHANGED <<env, loopVars, modules, frames, cur, result, callers, hostVars>>

\* The closure of a constructor or of a bound method runs the Function f in
\* a sub-VM of its own: Vm::default() with the env new_env, whose locals are
\* the first names of f's code bound to full_args, whose globals are the
\* globals f captured, and whose builtins are empty.  The calling run waits
\* in the Call handler, callee and arguments popped.
RunClosure(f, full_args, rest, h, kind, inst) ==
    /\ callers' = Append(callers,
            [stack |-> rest, env |-> env, loop_stack |-> loop_stack,
             iter_stack |-> iter_stack, modules |-> modules, ip |-> ip,
             frames |-> frames, cur |-> cur, loading |-> f.name,
             kind |-> kind, self |-> inst])
    /\ stack' = <<>>
    /\ env' = [EnvDefault EXCEPT
                  !.locals = BindParams(f.code.names, full_args, Len(full_args)),
                  !.globals = f.globals.globals]
    /\ loop_stack' = <<>>
    /\ iter_stack' = <<>>
    /\ modules' = EmptyMap
    /\ ip' = 0
    /\ frames' = <<>>
    /\ cur' = f.code
    /\ heap' = h
    /\ UNCHANGED result

\* `(nf.func)(&args)?` and the push of what it returns: the closure of a
\* constructor, of a bound method, or of a builtin or host native.
InvokeNative(callee, args, rest) ==
    /\ native_calls' = Append(native_calls, <<callee.name, args>>)
    /\ UNCHANGED <<fs_reads, body_runs, fn_calls, input>>
    /\ IF "class" \in DOMAIN callee
       THEN LET inst == InstanceV(Len(heap))
                h == Append(heap, [class |-> callee.class, attrs |-> EmptyMap])
                methods == callee.class.methods
            IN  IF "__init__" \in DOMAIN methods /\ methods["__init__"].t = "Function"
                THEN RunClosure(methods["__init__"], <<inst>> \o args, rest, h,
                                "init", inst)
                ELSE /\ stack' = Append(rest, inst)
                     /\ heap' = h
                     /\ ip' = ip + 1
                     /\ UNCHANGED <<env, loopVars, modules, frames, cur, result, callers>>
       ELSE IF "func" \in DOMAIN callee
       THEN RunClosure(callee.func, <<callee.self>> \o args, rest, heap,
                       "method", callee.self)
       ELSE \E r \in NativeOutcomes(callee, args) :
                /\ stack' = CASE r.t = "Err" -> rest
                              [] r.t = "Items" -> Append(rest, ListV(Len(heap)))
                              [] r.t = "Members" -> Append(rest, SetV(Len(heap)))
                              [] r.t = "Push" -> Append(rest, NoneV)
                              [] OTHER -> Append(rest, r)
                /\ heap' = CASE r.t \in {"Items", "Members"} -> Append(heap, r.items)
                             [] r.t = "Push" ->
                                  [heap EXCEPT ![r.ref + 1] = Append(@, r.item)]
                             [] OTHER -> heap
                /\ result' = IF r.t = "Err" THEN r ELSE result
                /\ ip' = IF r.t = "Err" THEN ip ELSE ip + 1
                /\ UNCHANGED <<env, loopVars, modules, frames, cur, callers>>

\* The handler of Call, from the pops on.
CallHandler ==
    LET argc == Instr.arg
        args == PopArgs(stack, argc)
        callee == stack[Len(stack) - argc]
        rest == SubSeq(stack, 1, Len(stack) - argc - 1)
    IN  IF Len(stack) < argc + 1 THEN Raise("stack underflow", <<>>)
        ELSE IF callee.t = "Function"
        THEN IF ~FunctionArityOk(callee, argc) THEN Raise("TypeError", rest)
             ELSE /\ frames' = Append(frames, CallFrame(ip, cur, env))
                  /\ env' = CallEnv(callee, args, argc, env)
                  /\ cur' = callee.code
                  /\ ip' = 0
                  /\ stack' = rest
                  /\ fn_calls' = Append(fn_calls,
                         [level |-> Len(callers), depth |-> Len(frames),
                          stack |-> rest, loop_stack |-> loop_stack,
                          iter_stack |-> iter_stack])
                  /\ UNCHANGED <<loopVars, modules, result, callers, fs_reads,
                                 body_runs, native_calls, input, heap>>
        ELSE IF callee.t = "NativeFunction"
        THEN IF ~NativeArityOk(callee, argc) THEN Raise("TypeError", rest)
             ELSE InvokeNative(callee, args, rest)
        ELSE Raise("TypeError", rest)

OpCall ==
    /\ Fetch("Call")
    /\ CallHandler

\* CallMethod pops as Call does, then invokes a NativeFunction whatever its
\* arity and takes nothing else for a callable.
OpCallMethod ==
    /\ Fetch("CallMethod")
    /\ LET argc == Instr.arg
           args == PopArgs(stack, argc)
           method == stack[Len(stack) - argc]
           rest == SubSeq(stack, 1, Len(stack) - argc - 1)
       IN  IF Len(stack) < argc + 1 THEN Raise("stack underflow", <<>>)
           ELSE IF method.t = "NativeFunction" THEN InvokeNative(method, args, rest)
           ELSE Raise("TypeError", rest)

OpDef ==
    /\ Fetch("Def")
    /\ LET fname == At(cur.names, Instr.name)
           f == FunctionV(fname, Instr.arity, At(cur.nested, Instr.code_idx), env)
       IN  Advance(stack, [env EXCEPT !.locals = Insert(@, fname, f)])

\* arith_add, arith_sub, arith_mul, arith_div: Int for two Ints (but
\* arith_div), Float when a Float is among two numbers.  f64(v) is `x as f64`
\* of an Int and the f64 of a Float, as <<num, den>>.
arith_add(a, b) ==
    LET f64(v) == IF v.t = "Int" THEN <<v.i, 1>> ELSE <<v.num, v.den>>
        Sum(x, y) == FloatV(x[1] * y[2] + y[1] * x[2], x[2] * y[2])
    IN  CASE a.t = "Int" /\ b.t = "Int" -> IntV(a.i + b.i)
          [] {a.t, b.t} \in {{"Float"}, {"Int", "Float"}} -> Sum(f64(a), f64(b))
          [] a.t = "Str" /\ b.t = "Str" -> StrV(a.s \o b.s)
          [] OTHER -> Err("TypeError")

arith_sub(a, b) ==
    LET f64(v) == IF v.t = "Int" THEN <<v.i, 1>> ELSE <<v.num, v.den>>
        Difference(x, y) == FloatV(x[1] * y[2] - y[1] * x[2], x[2] * y[2])
    IN  CASE a.t = "Int" /\ b.t = "Int" -> IntV(a.i - b.i)
          [] {a.t, b.t} \in {{"Float"}, {"Int", "Float"}} -> Difference(f64(a), f64(b))
          [] OTHER -> Err("TypeError")

arith_mul(a, b) ==
    LET f64(v) == IF v.t = "Int" THEN <<v.i, 1>> ELSE <<v.num, v.den>>
        Product(x, y) == FloatV(x[1] * y[1], x[2] * y[2])
    IN  CASE a.t = "Int" /\ b.t = "Int" -> IntV(a.i * b.i)
          [] {a.t, b.t} \in {{"Float"}, {"Int", "Float"}} -> Product(f64(a), f64(b))
          [] OTHER -> Err("TypeError")

\* A faulty division that keeps two Ints in Int.
arith_div_floor(a, b) ==
    IF a.t = "Int" /\ b.t = "Int" /\ b.i # 0 THEN IntV(a.i \div b.i)
    ELSE Err("TypeError")

arith_div(a, b) ==
    LET f64(v) == IF v.t = "Int" THEN <<v.i, 1>> ELSE <<v.num, v.den>>
        Quotient(x, y) == FloatV(x[1] * y[2], x[2] * y[1])
    IN  IF {a.t, b.t} \subseteq {"Int", "Float"} THEN Quotient(f64(a), f64(b))
        ELSE Err("TypeError")

OpAdd ==
    /\ Fetch("Add")
    /\ IF Len(stack) < 2 THEN Raise("stack underflow", <<>>)
       ELSE LET r == arith_add(stack[Len(stack) - 1], Last(stack))
                rest == SubSeq(stack, 1, Len(stack) - 2)
            IN  IF r.t = "Err" THEN Raise(r.msg, rest)
                ELSE Advance(Append(rest, r), env)

OpSub ==
    /\ Fetch("Sub")
    /\ IF Len(stack) < 2 THEN Raise("stack underflow", <<>>)
       ELSE LET r == arith_sub(stack[Len(stack) - 1], Last(stack))
                rest == SubSeq(stack, 1, Len(stack) - 2)
            IN  IF r.t = "Err" THEN Raise(r.msg, rest)
                ELSE Advance(Append(rest, r), env)

OpMul ==
    /\ Fetch("Mul")
    /\ IF Len(stack) < 2 THEN Raise("stack underflow", <<>>)
       ELSE LET r == arith_mul(stack[Len(stack) - 1], Last(stack))
                rest == SubSeq(stack, 1, Len(stack) - 2)
            IN  IF r.t = "Err" THEN Raise(r.msg, rest)
                ELSE Advance(Append(rest, r), env)

OpDiv ==
    /\ Fetch("Div")
    /\ IF Len(stack) < 2 THEN Raise("stack underflow", <<>>)
       ELSE LET r == arith_div(stack[Len(stack) - 1], Last(stack))
                rest == SubSeq(stack, 1, Len(stack) - 2)
            IN  IF r.t = "Err" THEN Raise(r.msg, rest)
                ELSE Advance(Append(rest, r), env)

OpUnaryNeg ==
    /\ Fetch("UnaryNeg")
    /\ IF stack = <<>> THEN Raise("stack underflow", stack)
       ELSE IF Last(stack).t = "Int"
       THEN Advance(Append(Front(stack), IntV(-Last(stack).i)), env)
       ELSE IF Last(stack).t = "Float"
       THEN Advance(Append(Front(stack), FloatV(-Last(stack).num, Last(stack).den)), env)
       ELSE Raise("TypeError", Front(stack))

OpUnaryPos ==
    /\ Fetch("UnaryPos")
    /\ IF stack = <<>> THEN Raise("stack underflow", stack)
       ELSE IF Last(stack).t \in {"Int", "Float"} THEN Advance(stack, env)
       ELSE Raise("TypeError", Front(stack))

-----------------------------------------------------------------------------
(* Branches *)

\* A faulty test with no arm for a Set: every Set is truthy.
is_falsey_no_set(v, h) ==
    CASE v.t = "Bool" -> ~v.b
      [] v.t = "None" -> TRUE
      [] v.t = "Int" -> v.i = 0
      [] v.t = "Float" -> v.num = 0 /\ v.den # 0
      [] v.t = "Str" -> v.s = ""
      [] v.t \in {"List", "Dict"} -> At(h, v.ref) = <<>>
      [] v.t = "Tuple" -> v.items = <<>>
      [] OTHER -> FALSE

is_falsey(v, h) ==
    CASE v.t = "Bool" -> ~v.b
      [] v.t = "None" -> TRUE
      [] v.t = "Int" -> v.i = 0
      [] v.t = "Float" -> v.num = 0 /\ v.den # 0
      [] v.t = "Str" -> v.s = ""
      [] v.t \in {"List", "Dict", "Set"} -> At(h, v.ref) = <<>>
      [] v.t = "Tuple" -> v.items = <<>>
      [] OTHER -> FALSE

\* A handler that sets ip, and may set the operand stack, loop_stack and
\* iter_stack, and leaves the rest.
LoopStep(stk, target, loops, iters) ==
    /\ stack' = stk
    /\ ip' = target
    /\ loop_stack' = loops
    /\ iter_stack' = iters
    /\ UNCHANGED <<env, modules, frames, cur, result, callers, hostVars, heap>>

OpJump ==
    /\ Fetch("Jump")
    /\ LoopStep(stack, Instr.arg, loop_stack, iter_stack)

OpJumpIfFalse ==
    /\ Fetch("JumpIfFalse")
    /\ IF stack = <<>> THEN Raise("stack underflow", stack)
       ELSE IF is_falsey(Last(stack), heap) THEN LoopStep(Front(stack), Instr.arg, loop_stack, iter_stack)
       ELSE LoopStep(Front(stack), ip + 1, loop_stack, iter_stack)

OpJumpIfTrue ==
    /\ Fetch("JumpIfTrue")
    /\ IF stack = <<>> THEN Raise("stack underflow", stack)
       ELSE IF ~is_falsey(Last(stack), heap) THEN LoopStep(Front(stack), Instr.arg, loop_stack, iter_stack)
       ELSE LoopStep(Front(stack), ip + 1, loop_stack, iter_stack)

-----------------------------------------------------------------------------
(* Containers *)

\* A faulty insert that moves a present key to the end.
DictInsertLast(d, k, v) ==
    Append(SelectSeq(d, LAMBDA e : e[1] # k), <<k, v>>)

\* IndexMap::insert: a present key keeps its place and takes the new value,
\* an absent key goes to the end.  A Dict cell is the sequence of its entries.
DictInsert(d, k, v) ==
    IF \E i \in 1..Len(d) : d[i][1] = k
    THEN [i \in 1..Len(d) |-> IF d[i][1] = k THEN <<k, v>> ELSE d[i]]
    ELSE Append(d, <<k, v>>)

\* `for (k, v) in pairs.into_iter().rev() { dict.insert(k, v); }`, pairs
\* given in the order the loop visits them.
RECURSIVE DictFrom(_, _)
DictFrom(pairs, d) ==
    IF pairs = <<>> THEN d
    ELSE DictFrom(Tail(pairs), DictInsert(d, Head(pairs)[1].s, Head(pairs)[2]))

OpBuildList ==
    /\ Fetch("BuildList")
    /\ IF Len(stack) < Instr.arg THEN Raise("stack underflow", <<>>)
       ELSE AdvanceHeap(Append(SubSeq(stack, 1, Len(stack) - Instr.arg), ListV(Len(heap))),
                        Append(heap, PopArgs(stack, Instr.arg)))

OpBuildTuple ==
    /\ Fetch("BuildTuple")
    /\ IF Len(stack) < Instr.arg THEN Raise("stack underflow", <<>>)
       ELSE Advance(Append(SubSeq(stack, 1, Len(stack) - Instr.arg),
                           TupleV(PopArgs(stack, Instr.arg))), env)

\* set.insert of each popped item, topmost first: an item already in the set
\* is left out, and hashing a value that is not a scalar panics.
OpBuildSet ==
    /\ Fetch("BuildSet")
    /\ IF Len(stack) < Instr.arg THEN Raise("stack underflow", <<>>)
       ELSE LET items == Popped(stack, Instr.arg)
                rest == SubSeq(stack, 1, Len(stack) - Instr.arg)
                kept == SelectSeq([i \in DOMAIN items |-> <<i, items[i]>>],
                                  LAMBDA p : \A j \in 1..(p[1] - 1) : items[j] # p[2])
                members == [j \in DOMAIN kept |-> kept[j][2]]
            IN  IF \E i \in DOMAIN items :
                       items[i].t \notin {"Int", "Float", "Bool", "Str", "None"}
                THEN Raise("panic", rest)
                ELSE AdvanceHeap(Append(rest, SetV(Len(heap))), Append(heap, members))

\* The pairs are popped value first, topmost pair first; a key that is not
\* a Str ends the handler where it is met.
OpBuildDict ==
    /\ Fetch("BuildDict")
    /\ LET count == Instr.arg
           n == Len(stack)
           avail == IF n \div 2 < count THEN n \div 2 ELSE count
           KeyAt(j) == stack[n - 2 * j + 1]            \* j-th pair from the top
           bad == {j \in 1..avail : KeyAt(j).t # "Str"}
           first == CHOOSE j \in bad : \A x \in bad : j <= x
           pairs == [j \in 1..count |-> <<stack[n - 2 * count + 2 * j - 1],
                                          stack[n - 2 * count + 2 * j]>>]
       IN  IF bad # {} THEN Raise("TypeError", SubSeq(stack, 1, n - 2 * first))
           ELSE IF n < 2 * count THEN Raise("stack underflow", <<>>)
           ELSE AdvanceHeap(Append(SubSeq(stack, 1, n - 2 * count), DictV(Len(heap))),
                            Append(heap, DictFrom(pairs, <<>>)))

\* A faulty index computation that reads a negative index as its magnitude.
SeqIndexMagnitude(i, len) == IF i < 0 THEN -i ELSE i

\* `if i < 0 { len as i64 + i } else { i } as usize`
SeqIndex(i, len) == IF i < 0 THEN (len + i) % (2 ^ UsizeBits) ELSE i

\* A faulty list store that writes a copy of the cell.
ListStoreCopy(h, ref, idx, value) ==
    Append(h, [At(h, ref) EXCEPT ![idx + 1] = value])

\* `l.borrow_mut()[idx] = value`
ListStore(h, ref, idx, value) == [h EXCEPT ![ref + 1][idx + 1] = value]

OpLoadIndex ==
    /\ Fetch("LoadIndex")
    /\ IF Len(stack) < 2 THEN Raise("stack underflow", <<>>)
       ELSE LET index == Last(stack)
                obj == stack[Len(stack) - 1]
                rest == SubSeq(stack, 1, Len(stack) - 2)
                items == IF obj.t = "Tuple" THEN obj.items ELSE At(heap, obj.ref)
            IN  CASE obj.t \in {"List", "Tuple"} /\ index.t = "Int" ->
                        IF SeqIndex(index.i, Len(items)) < Len(items)
                        THEN Advance(Append(rest, At(items, SeqIndex(index.i, Len(items)))),
                                     env)
                        ELSE Raise("IndexError", rest)
                  [] obj.t = "Dict" /\ index.t = "Str" ->
                        IF \E j \in 1..Len(items) : items[j][1] = index.s
                        THEN Advance(Append(rest,
                                 items[CHOOSE j \in 1..Len(items) : items[j][1] = index.s][2]),
                                 env)
                        ELSE Raise("KeyError", rest)
                  [] OTHER -> Raise("TypeError", rest)

OpStoreIndex ==
    /\ Fetch("StoreIndex")
    /\ IF Len(stack) < 3 THEN Raise("stack underflow", <<>>)
       ELSE LET value == Last(stack)
                index == stack[Len(stack) - 1]
                obj == stack[Len(stack) - 2]
                rest == SubSeq(stack, 1, Len(stack) - 3)
            IN  CASE obj.t = "List" /\ index.t = "Int" ->
                        LET len == Len(At(heap, obj.ref))
                        IN  IF SeqIndex(index.i, len) < len
                            THEN AdvanceHeap(rest, ListStore(heap, obj.ref,
                                                 SeqIndex(index.i, len), value))
                            ELSE Raise("IndexError", rest)
                  [] obj.t = "Dict" /\ index.t = "Str" ->
                        AdvanceHeap(rest, [heap EXCEPT ![obj.ref + 1] =
                                              DictInsert(@, index.s, value)])
                  [] OTHER -> Raise("TypeError", rest)

-----------------------------------------------------------------------------
(* Loops *)

OpSetupLoop ==
    /\ Fetch("SetupLoop")
    /\ LoopStep(stack, ip + 1, Append(loop_stack, <<ip + 1, Instr.arg>>), iter_stack)

OpPopBlock ==
    /\ Fetch("PopBlock")
    /\ LoopStep(stack, ip + 1,
                IF loop_stack = <<>> THEN loop_stack ELSE Front(loop_stack), iter_stack)

OpBreak ==
    /\ Fetch("Break")
    /\ IF loop_stack = <<>> THEN Raise("SyntaxError", stack)
       ELSE LoopStep(stack, Last(loop_stack)[2], Front(loop_stack), iter_stack)

OpContinue ==
    /\ Fetch("Continue")
    /\ IF loop_stack = <<>> THEN Raise("SyntaxError", stack)
       ELSE LoopStep(stack, Last(loop_stack)[1], loop_stack, iter_stack)

OpGetIter ==
    /\ Fetch("GetIter")
    /\ IF stack = <<>> THEN Raise("stack underflow", stack)
       ELSE IF Last(stack).t \in {"List", "Tuple"}
       THEN LoopStep(Front(stack), ip + 1, loop_stack,
                     Append(iter_stack, [index |-> 0, obj |-> Last(stack)]))
       ELSE Raise("TypeError", Front(stack))

OpForIter ==
    /\ Fetch("ForIter")
    /\ IF iter_stack = <<>> THEN Raise("RuntimeError", stack)
       ELSE LET it == Last(iter_stack)
                items == CASE it.obj.t = "List" -> At(heap, it.obj.ref)
                           [] it.obj.t = "Tuple" -> it.obj.items
                           [] OTHER -> <<>>
            IN  IF it.index < Len(items)
                THEN LoopStep(Append(stack, At(items, it.index)), ip + 1, loop_stack,
                              [iter_stack EXCEPT ![Len(iter_stack)].index = @ + 1])
                ELSE LoopStep(stack, Instr.arg, loop_stack, Front(iter_stack))

-----------------------------------------------------------------------------
(* Classes, instances and attributes *)

\* The handler up to the class body's run in class_vm: a VM with a clone of
\* the whole env and nothing else.
OpClassDef ==
    /\ Fetch("ClassDef")
    /\ callers' = Append(callers,
            [stack |-> stack, env |-> env, loop_stack |-> loop_stack,
             iter_stack |-> iter_stack, modules |-> modules, ip |-> ip,
             frames |-> frames, cur |-> cur, loading |-> At(cur.names, Instr.name),
             kind |-> "class", self |-> NoneV])
    /\ stack' = <<>>
    /\ loop_stack' = <<>>
    /\ iter_stack' = <<>>
    /\ modules' = EmptyMap
    /\ ip' = 0
    /\ frames' = <<>>
    /\ cur' = At(cur.nested, Instr.code_idx)
    /\ UNCHANGED <<env, result, hostVars, heap>>

\* class_vm.run returned Ok: its locals are the class's methods, and the
\* constructor is bound under the class name in the locals of the handler's VM.
ClassBodyReturn ==
    /\ callers # <<>>
    /\ result \notin {Pending}
    /\ result.t # "Err"
    /\ Last(callers).kind = "class"
    /\ LET p == Last(callers)
           class == [name |-> p.loading, methods |-> env.locals]
       IN  /\ callers' = Front(callers)
           /\ stack' = p.stack
           /\ loop_stack' = p.loop_stack
           /\ iter_stack' = p.iter_stack
           /\ modules' = p.modules
           /\ frames' = p.frames
           /\ cur' = p.cur
           /\ env' = [p.env EXCEPT !.locals = Insert(@, p.loading, ConstructorV(class))]
           /\ ip' = p.ip + 1
           /\ result' = Pending
           /\ UNCHANGED <<hostVars, heap>>

\* The closure's run returned Ok: the constructor gives the instance
\* whatever __init__ returned, a bound method gives what its Function
\* returned; Call pushes it and advances.
ClosureReturn ==
    /\ callers # <<>>
    /\ result \notin {Pending}
    /\ result.t # "Err"
    /\ Last(callers).kind \in {"init", "method"}
    /\ LET p == Last(callers)
       IN  /\ callers' = Front(callers)
           /\ stack' = Append(p.stack, IF p.kind = "init" THEN p.self ELSE result)
           /\ env' = p.env
           /\ loop_stack' = p.loop_stack
           /\ iter_stack' = p.iter_stack
           /\ modules' = p.modules
           /\ frames' = p.frames
           /\ cur' = p.cur
           /\ ip' = p.ip + 1
           /\ result' = Pending
           /\ UNCHANGED <<hostVars, heap>>

\* `f.arity - 1` in usize: below zero the subtraction aborts the run where
\* overflow is checked and wraps to usize::MAX where it is not.
BoundArity(arity) ==
    IF arity = 0 THEN {[panic |-> TRUE, arity |-> 0], [panic |-> FALSE, arity |-> UNBOUNDED]}
    ELSE {[panic |-> FALSE, arity |-> arity - 1]}

OpLoadAttr ==
    /\ Fetch("LoadAttr")
    /\ IF stack = <<>> THEN Raise("stack underflow", stack)
       ELSE LET attr == At(cur.names, Instr.arg)
                obj == Last(stack)
                rest == Front(stack)
                Get(dict) == IF attr \in DOMAIN dict
                             THEN Advance(Append(rest, dict[attr]), env)
                             ELSE Raise("AttributeError", rest)
                Bind(inst, m) ==
                    \E a \in BoundArity(m.arity) :
                        IF a.panic THEN Raise("panic", rest)
                        ELSE Advance(Append(rest,
                                 BoundMethodV(inst.class.name \o "." \o attr, a.arity,
                                              m, obj)),
                                 env)
                Instance(inst) ==
                    IF attr \in DOMAIN inst.attrs THEN Get(inst.attrs)
                    ELSE IF attr \in DOMAIN inst.class.methods
                            /\ inst.class.methods[attr].t = "Function"
                    THEN Bind(inst, inst.class.methods[attr])
                    ELSE Get(inst.class.methods)
            IN  CASE obj.t = "Instance" -> Instance(At(heap, obj.ref))
                  [] obj.t \in {"Module", "NativeModule"} -> Get(obj.dict)
                  [] OTHER -> Raise("AttributeError", rest)

OpStoreAttr ==
    /\ Fetch("StoreAttr")
    /\ IF Len(stack) < 2 THEN Raise("stack underflow", <<>>)
       ELSE LET attr == At(cur.names, Instr.arg)
                value == Last(stack)
                obj == Last(Front(stack))
                rest == Front(Front(stack))
            IN  IF obj.t = "Instance"
                THEN AdvanceHeap(rest, [heap EXCEPT ![obj.ref + 1].attrs =
                                                    Insert(@, attr, value)])
                ELSE Raise("AttributeError", rest)

-----------------------------------------------------------------------------
(* Vm::load_module and the importing handlers *)

\* A faulty load_module that never finds a module in the cache.
ModuleCachedNever(mods, name) == FALSE

\* `if let Some(module) = self.modules.get(name)`
ModuleCached(mods, name) == name \in DOMAIN mods

\* The module cache of the importing VM after a file module was loaded: the
\* sub-VM ran on `self.modules.clone()`, the importer inserts into its own.
ModulesAfterLoad(own, sub, name, obj) == Insert(own, name, obj)

\* A faulty loop that binds a name missing from the dict to None.
bind_from_lenient(idxs, names, dict, locals) ==
    LET wanted == {At(names, idxs[i]) : i \in DOMAIN idxs}
    IN  [err |-> "",
         locals |-> [x \in DOMAIN locals \cup wanted |->
                        IF x \in wanted
                        THEN (IF x \in DOMAIN dict THEN dict[x] ELSE NoneV)
                        ELSE locals[x]]]

\* ImportFrom's loop over the requested names: each bound from the module's
\* dict, or ImportError at the first one missing.
RECURSIVE bind_from(_, _, _, _)
bind_from(idxs, names, dict, locals) ==
    IF idxs = <<>> THEN [err |-> "", locals |-> locals]
    ELSE LET name == At(names, Head(idxs))
         IN  IF name \in DOMAIN dict
             THEN bind_from(Tail(idxs), names, dict, Insert(locals, name, dict[name]))
             ELSE [err |-> "ImportError", locals |-> locals]

\* What each importing handler does with the loaded module object.
BindImported(instr, names, obj, locals) ==
    CASE instr.op = "Import" ->
            [err |-> "", locals |-> Insert(locals, At(names, instr.arg), obj)]
      [] instr.op = "ImportFrom" -> bind_from(instr.names, names, obj.dict, locals)
      [] instr.op = "ImportStar" ->
            LET pub == {k \in DOMAIN obj.dict : ~StartsWithUnderscore(k)}
            IN  [err |-> "",
                 locals |-> [x \in DOMAIN locals \cup pub |->
                                IF x \in pub THEN obj.dict[x] ELSE locals[x]]]

\* The handler up to the module body's run: a cache hit binds at once; a
\* miss reads <name>.py, compiles it and starts the body in a fresh VM.
ImportHandler(name) ==
    LET found == name \in DOMAIN Files
        src == compile(Files[name])
        b == BindImported(Instr, cur.names, modules[name], env.locals)
    IN     IF ModuleCached(modules, name)
           THEN /\ env' = [env EXCEPT !.locals = b.locals]
                /\ ip' = IF b.err = "" THEN ip + 1 ELSE ip
                /\ result' = IF b.err = "" THEN result ELSE Err(b.err)
                /\ UNCHANGED <<stack, loopVars, modules, frames, cur, callers, hostVars, heap>>
           ELSE IF ~found \/ src.err # ""
           THEN /\ fs_reads' = Append(fs_reads, name)
                /\ result' = Err(IF found THEN src.err ELSE "ModuleNotFoundError")
                /\ UNCHANGED <<stack, env, loopVars, modules, ip, frames, cur, callers,
                               body_runs, native_calls, fn_calls, input, heap>>
           ELSE /\ Len(callers) < MaxNest
                /\ fs_reads' = Append(fs_reads, name)
                /\ body_runs' = Append(body_runs, name)
                /\ callers' = Append(callers,
                        [stack |-> stack, env |-> env, loop_stack |-> loop_stack,
                         iter_stack |-> iter_stack, modules |-> modules, ip |-> ip,
                         frames |-> frames, cur |-> cur, loading |-> name,
                         kind |-> "module", self |-> NoneV])
                /\ stack' = <<>>
                /\ env' = [EnvDefault EXCEPT !.builtins = Builtins]
                /\ loop_stack' = <<>>
                /\ iter_stack' = <<>>
                /\ modules' = modules
                /\ ip' = 0
                /\ frames' = <<>>
                /\ cur' = src.code
                /\ UNCHANGED <<result, native_calls, fn_calls, input, heap>>

OpImport ==
    /\ Fetch("Import")
    /\ ImportHandler(At(cur.names, Instr.arg))

OpImportFrom ==
    /\ Fetch("ImportFrom")
    /\ ImportHandler(At(cur.names, Instr.module))

OpImportStar ==
    /\ Fetch("ImportStar")
    /\ ImportHandler(At(cur.names, Instr.arg))

\* module_vm.run returned Ok: load_module wraps the sub-VM's locals as the
\* Module, caches it, and the importing handler binds and advances.
LoadModuleReturn ==
    /\ callers # <<>>
    /\ result \notin {Pending}
    /\ result.t # "Err"
    /\ Last(callers).kind = "module"
    /\ LET p == Last(callers)
           obj == ModuleV(p.loading, env.locals)
           b == BindImported(At(p.cur.instructions, p.ip), p.cur.names, obj, p.env.locals)
       IN  /\ modules' = ModulesAfterLoad(p.modules, modules, p.loading, obj)
           /\ callers' = Front(callers)
           /\ stack' = p.stack
           /\ loop_stack' = p.loop_stack
           /\ iter_stack' = p.iter_stack
           /\ frames' = p.frames
           /\ cur' = p.cur
           /\ env' = [p.env EXCEPT !.locals = b.locals]
           /\ ip' = IF b.err = "" THEN p.ip + 1 ELSE p.ip
           /\ result' = IF b.err = "" THEN Pending ELSE Err(b.err)
           /\ UNCHANGED <<hostVars, heap>>

\* module_vm.run returned Err: `?` hands it to the importing run unchanged.
\* So does the `?` after the run of a class body, of __init__ and of a
\* bound method's Function.
LoadModuleError ==
    /\ callers # <<>>
    /\ result.t = "Err"
    /\ LET p == Last(callers)
       IN  /\ callers' = Front(callers)
           /\ stack' = p.stack
           /\ env' = p.env
           /\ loop_stack' = p.loop_stack
           /\ iter_stack' = p.iter_stack
           /\ modules' = p.modules
           /\ ip' = p.ip
           /\ frames' = p.frames
           /\ cur' = p.cur
           /\ UNCHANGED <<result, hostVars, heap>>

Next ==
    \/ EndOfCode
    \/ OpLoadConst
    \/ OpLoadName
    \/ OpStoreName
    \/ OpLoadGlobal
    \/ OpStoreGlobal
    \/ OpPop
    \/ OpReturn
    \/ OpCall
    \/ OpCallMethod
    \/ OpDef
    \/ OpAdd
    \/ OpSub
    \/ OpMul
    \/ OpDiv
    \/ OpUnaryPos
    \/ OpUnaryNeg
    \/ OpJump
    \/ OpJumpIfFalse
    \/ OpJumpIfTrue
    \/ OpBuildSet
    \/ OpBuildList
    \/ OpBuildTuple
    \/ OpBuildDict
    \/ OpLoadIndex
    \/ OpStoreIndex
    \/ OpSetupLoop
    \/ OpPopBlock
    \/ OpBreak
    \/ OpContinue
    \/ OpGetIter
    \/ OpForIter
    \/ OpClassDef
    \/ ClassBodyReturn
    \/ ClosureReturn
    \/ OpLoadAttr
    \/ OpStoreAttr
    \/ OpImport
    \/ OpImportFrom
    \/ OpImportStar
    \/ LoadModuleReturn
    \/ LoadModuleError

Spec == Init /\ [][Next]_vars

\* execute has returned: the outermost run is over.
Finished == callers = <<>> /\ result # Pending

-----------------------------------------------------------------------------
(* Properties of module loading *)

\* The instruction a handler has just completed, when it advanced ip.
Done(o) == Running /\ ip > 0 /\ ip <= Len(cur.instructions)
           /\ At(cur.instructions, ip - 1).op = o

\* C1: within one top-level run the body of a file module is executed at
\* most once, however and from whichever module body it is imported.
C1_BodyRunsAtMostOnce ==
    \A i, j \in DOMAIN body_runs : body_runs[i] = body_runs[j] => i = j

\* C2: an Import of a name present in the module cache reads no file and
\* runs no code; it binds the cached module object to locals[name] and
\* leaves the cache as it was.
C2_CachedImport ==
    [][(Fetch("Import") /\ At(cur.names, Instr.arg) \in DOMAIN modules) =>
          LET name == At(cur.names, Instr.arg)
          IN  /\ fs_reads' = fs_reads
              /\ body_runs' = body_runs
              /\ native_calls' = native_calls
              /\ modules' = modules
              /\ env' = [env EXCEPT !.locals = Insert(@, name, modules[name])]
              /\ ip' = ip + 1
              /\ UNCHANGED <<stack, frames, cur, callers, result>>]_vars

\* A second `import mb` has just completed: the file was read once, the
\* body ran once, and the name is bound to the cached module.
C2_Witness ==
    /\ Done("Import")
    /\ ip > 1
    /\ At(cur.instructions, ip - 2) = At(cur.instructions, ip - 1)
    /\ LET name == At(cur.names, At(cur.instructions, ip - 1).arg)
       IN  /\ fs_reads = <<name>>
           /\ body_runs = <<name>>
           /\ name \in DOMAIN modules
           /\ name \in DOMAIN env.locals
           /\ env.locals[name] = modules[name]

-----------------------------------------------------------------------------
(* Properties of calls *)

\* A Call instruction with its callee and arguments on the stack.
AtCall == Fetch("Call") /\ Len(stack) >= Instr.arg + 1
Callee == stack[Len(stack) - Instr.arg]
\* The i-th argument of the call in source order, i in 1..argc.
Arg(i) == stack[Len(stack) - Instr.arg + i]
AtFunctionCall == AtCall /\ Callee.t = "Function" /\ Callee.arity = Instr.arg
Top(stk) == IF stk = <<>> THEN NoneV ELSE Last(stk)

\* C3: a Call of a user Function pushes one frame holding the caller's code,
\* the index after the Call and the caller's env; no other instruction
\* touches the frames; the Return pops that frame, resumes the caller there
\* with exactly that env and the returned value on top of the stack; a
\* Return with no frame halts the run with the returned value as result.
C3_CallReturn ==
    [][/\ AtFunctionCall =>
            /\ frames' = Append(frames, [rip |-> ip + 1, code |-> cur, env |-> env])
            /\ callers' = callers
       /\ (Fetch("Return") /\ frames # <<>>) =>
            /\ frames' = Front(frames)
            /\ cur' = Last(frames).code
            /\ ip' = Last(frames).rip
            /\ env' = Last(frames).env
            /\ stack' # <<>>
            /\ Last(stack') = Top(stack)
            /\ result' = Pending
       /\ (Fetch("Return") /\ frames = <<>>) =>
            /\ result' = Top(stack)
            /\ UNCHANGED <<ip, cur, env>>
       /\ (callers' = callers /\ ~AtFunctionCall /\ ~Fetch("Return")) =>
            frames' = frames]_vars

\* The callee of `shadow` assigned x = 5 and returned it: back in the
\* caller, after the Call, x is still 1 and 5 is on top of the stack.
C3_Witness ==
    /\ Done("Call")
    /\ frames = <<>>
    /\ "x" \in DOMAIN env.locals
    /\ env.locals["x"] = IntV(1)
    /\ stack # <<>>
    /\ Last(stack) = IntV(5)

\* C4: a user Function that reaches the end of its instructions without a
\* Return yields None to its caller: the frame is popped, the caller's code,
\* ip and env are restored, and None is the value of the call.
C4_FallthroughYieldsNone ==
    [][(Running /\ ip >= Len(cur.instructions) /\ frames # <<>>) =>
          /\ frames' = Front(frames)
          /\ cur' = Last(frames).code
          /\ ip' = Last(frames).rip
          /\ env' = Last(frames).env
          /\ stack' # <<>>
          /\ Last(stack') = NoneV
          /\ result' = Pending]_vars

\* C5: a called function reads, by LoadName, every name that was bound in
\* the locals of the defining scope when its Def executed (unless one of its
\* own parameters has that name).
C5_DefiningLocalsVisible ==
    [][AtFunctionCall =>
          \A n \in DOMAIN Callee.globals.locals :
              n \notin DOMAIN env'.locals =>
                  LookupName(env', n) = Callee.globals.locals[n]]_vars

\* C6: Def captures the env of the defining scope in the Function, and the
\* globals of a callee are the globals of that captured env; its locals hold
\* nothing of the call site but the arguments.
C6_GlobalsOfDefinition ==
    [][/\ Fetch("Def") =>
            LET fname == At(cur.names, Instr.name)
            IN  /\ fname \in DOMAIN env'.locals
                /\ env'.locals[fname].t = "Function"
                /\ env'.locals[fname].globals = env
       /\ AtFunctionCall =>
            /\ env'.globals = Callee.globals.globals
            /\ \A n \in DOMAIN env'.locals :
                   \E i \in 1..Instr.arg :
                       n = Callee.code.names[i] /\ env'.locals[n] = Arg(i)]_vars

\* At the entry of a callee whose call site has another value for a global
\* than the env its Def captured.
C6_Witness ==
    /\ Running
    /\ ip = 0
    /\ frames # <<>>
    /\ \E n \in DOMAIN env.globals \cap DOMAIN Last(frames).env.globals :
           env.globals[n] # Last(frames).env.globals[n]

\* The parameter names of the `def name(...)` in the source of a program.
DeclaredParams(inp, name) ==
    LET src == Source(inp)
    IN  src[CHOOSE i \in DOMAIN src :
                src[i].k = "FunctionDef" /\ src[i].name = name].args

\* C7: at the entry of a function called with n arguments, its locals bind
\* the i-th declared parameter to the i-th argument, for every i, and hold
\* no other name.
C7_ParametersBound ==
    [][(AtFunctionCall /\ input.id \notin {"raw_globals", "raw_jump", "raw_method", "raw_iter"}) =>
          LET ps == DeclaredParams(input, Callee.name)
              n == Instr.arg
          IN  /\ Len(ps) = n
              /\ DOMAIN env'.locals = {ps[i] : i \in 1..n}
              /\ \A i \in 1..n : env'.locals[ps[i]] = Arg(i)
              /\ ip' = 0
              /\ cur' = Callee.code]_vars

\* At the entry of ap(f, u, v) called with two different integers.
C7_Witness ==
    /\ Running
    /\ ip = 0
    /\ frames # <<>>
    /\ DOMAIN env.locals = {"f", "u", "v"}
    /\ env.locals["f"].t = "Function"
    /\ env.locals["u"] = IntV(input.a)
    /\ env.locals["v"] = IntV(input.b)
    /\ input.a # input.b

\* C8: Call n checks the arity before it transfers control: a Function of
\* another arity yields TypeError with no frame pushed and no instruction of
\* the callee run; a NativeFunction of another arity yields TypeError with
\* the host closure not invoked, unless its arity is UNBOUNDED, which takes
\* any n: the closure is invoked and an error, if any, is the closure's own;
\* any other callee yields TypeError.
C8_ArityChecked ==
    [][AtCall =>
          /\ (Callee.t = "Function" /\ Callee.arity # Instr.arg) =>
                /\ result' = Err("TypeError")
                /\ UNCHANGED <<frames, cur, ip, env, native_calls>>
          /\ (Callee.t = "NativeFunction" /\ Callee.arity # Instr.arg
                  /\ Callee.arity # UNBOUNDED) =>
                /\ result' = Err("TypeError")
                /\ UNCHANGED <<frames, cur, ip, env, native_calls>>
          /\ (Callee.t = "NativeFunction" /\ Callee.arity = UNBOUNDED) =>
                /\ Len(native_calls') = Len(native_calls) + 1
                /\ Last(native_calls') =
                       <<Callee.name, [i \in 1..Instr.arg |-> Arg(i)]>>
                /\ result' # Pending =>
                       result' \in NativeOutcomes(Callee, [i \in 1..Instr.arg |-> Arg(i)])
          /\ Callee.t \notin {"Function", "NativeFunction"} =>
                /\ result' = Err("TypeError")
                /\ UNCHANGED <<frames, cur, ip, env, native_calls>>]_vars

\* print, of arity UNBOUNDED, was invoked with three arguments, and then a
\* call of a one-parameter function with two arguments stopped the run with
\* TypeError, at the Call, with no frame pushed.
C8_Witness ==
    /\ result = Err("TypeError")
    /\ callers = <<>>
    /\ frames = <<>>
    /\ ip < Len(cur.instructions)
    /\ Instr = Op1("Call", 2)
    /\ Len(native_calls) = 1
    /\ native_calls[1][1] = "print"
    /\ Len(native_calls[1][2]) = 3

-----------------------------------------------------------------------------
(* Properties of name lookup and of the program result *)

\* C9: LoadName pushes the binding of locals if there is one, else that of
\* globals, else that of builtins, else yields NameError; LoadGlobal does
\* the same without locals; neither changes the env.
C9_NameLookup ==
    [][/\ Fetch("LoadName") =>
            LET n == At(cur.names, Instr.arg)
            IN  /\ env' = env
                /\ IF n \in DOMAIN env.locals
                   THEN stack' = Append(stack, env.locals[n]) /\ ip' = ip + 1
                   ELSE IF n \in DOMAIN env.globals
                   THEN stack' = Append(stack, env.globals[n]) /\ ip' = ip + 1
                   ELSE IF n \in DOMAIN env.builtins
                   THEN stack' = Append(stack, env.builtins[n]) /\ ip' = ip + 1
                   ELSE result' = Err("NameError")
       /\ Fetch("LoadGlobal") =>
            LET n == At(cur.names, Instr.arg)
            IN  /\ env' = env
                /\ IF n \in DOMAIN env.globals
                   THEN stack' = Append(stack, env.globals[n]) /\ ip' = ip + 1
                   ELSE IF n \in DOMAIN env.builtins
                   THEN stack' = Append(stack, env.builtins[n]) /\ ip' = ip + 1
                   ELSE result' = Err("NameError")]_vars

\* A LoadName has just pushed the local binding of a name that globals
\* binds to another value.
C9_Witness ==
    /\ Done("LoadName")
    /\ LET n == At(cur.names, At(cur.instructions, ip - 1).arg)
       IN  /\ n \in DOMAIN env.locals \cap DOMAIN env.globals
           /\ env.locals[n] # env.globals[n]
           /\ stack # <<>>
           /\ Last(stack) = env.locals[n]

\* The last top-level expression statement of a program.
LastExpression(body) ==
    body[CHOOSE i \in DOMAIN body :
            body[i].k = "Expr" /\ \A j \in (i + 1)..Len(body) : body[j].k # "Expr"].value

\* C10: the root CodeObject ends with Return; the result of the program is
\* the top of the stack when that Return executes, and that is the value of
\* the last top-level expression statement (here: when that statement is a
\* number literal, the number); an empty module results in None.
C10_ResultIsLastExpression ==
    [][(callers = <<>> /\ frames = <<>> /\ Fetch("Return")
            /\ input.id \notin {"raw_globals", "raw_jump", "raw_method", "raw_iter"}) =>
          LET body == Source(input)
          IN  /\ ip = Len(cur.instructions) - 1
              /\ result' = Top(stack)
              /\ body = <<>> => result' = NoneV
              /\ (/\ \E i \in DOMAIN body : body[i].k = "Expr"
                  /\ LastExpression(body).k = "NumberLiteral") =>
                    result' = IntV(LastExpression(body).value)]_vars

-----------------------------------------------------------------------------
(* Properties of the compiled code and of the operand stack *)

\* The program is source text that compile accepted.
Compiled == input.id \notin {"raw_globals", "raw_jump", "raw_method", "raw_iter"} /\ MainCode(input).err = ""

\* C11: when a compiled program has completed without error, that is, its
\* final top-level Return has executed, the operand stack is empty: every
\* value pushed while a statement ran has been consumed or discarded.
C11_StackEmptyAtEnd ==
    (Finished /\ Compiled /\ result.t # "Err") => stack = <<>>

\* A code object and the code objects nested in it, at any depth.
RECURSIVE CodeObjects(_)
CodeObjects(code) ==
    {code} \cup UNION {CodeObjects(code.nested[i]) : i \in DOMAIN code.nested}

\* The number of instructions statements and an expression compile to.
Size(ss) == Len(compile_stmts(ss, CodeObjectDefault).code.instructions)
ExprSize(e) == Len(compile_expr(e, CodeObjectDefault).code.instructions)

\* The jumps of the if statements among ss, compiled from address p on into
\* code, are where the statement's layout puts them: the JumpIfFalse after
\* the test leads to the first instruction after the body and the Jump that
\* closes it, where the code of the elif/else clauses starts; that Jump leads
\* to the first instruction after the whole statement.
RECURSIVE JumpsPatched(_, _, _)
JumpsPatched(ss, p, code) ==
    \/ ss = <<>>
    \/ LET st == Head(ss)
           next == p + Size(<<st>>)
           test_end == p + ExprSize(st.test)
           else_at == test_end + 1 + Size(st.body)
                        + (IF st.elif_else_clauses # <<>> THEN 1 ELSE 0)
       IN  /\ JumpsPatched(Tail(ss), next, code)
           /\ CASE st.k = "If" ->
                    /\ At(code.instructions, test_end) = Op1("JumpIfFalse", else_at)
                    /\ st.elif_else_clauses # <<>> =>
                            At(code.instructions, else_at - 1) = Op1("Jump", next)
                    /\ JumpsPatched(st.body, test_end + 1, code)
                    /\ JumpsPatched(clause_bodies(st.elif_else_clauses), else_at, code)
                [] st.k = "FunctionDef" ->
                    JumpsPatched(st.body, 0,
                                 At(code.nested, At(code.instructions, p).code_idx))
                [] st.k = "For" ->
                    JumpsPatched(st.body, p + ExprSize(st.iter) + 4, code)
                [] OTHER -> TRUE

\* C12: in every code object of a compiled program the operand of every
\* Jump, JumpIfFalse and JumpIfTrue is less than the number of instructions
\* of that code object, and every jump emitted with a placeholder has been
\* patched to the address its if statement's layout gives it.
C12_JumpsInRange ==
    Compiled =>
        /\ \A code \in CodeObjects(MainCode(input).code) :
              \A i \in DOMAIN code.instructions :
                code.instructions[i].op \in {"Jump", "JumpIfFalse", "JumpIfTrue"} =>
                    code.instructions[i].arg < Len(code.instructions)
        /\ JumpsPatched(Source(input), 0, MainCode(input).code)

\* A run stands at the address a patched JumpIfFalse led it to, in code
\* that also holds the Jump closing an if body.
C12_Witness ==
    /\ Compiled /\ Running /\ callers = <<>>
    /\ \E i \in DOMAIN cur.instructions :
            cur.instructions[i] = Op1("JumpIfFalse", ip) /\ i < ip
    /\ \E i \in DOMAIN cur.instructions :
            cur.instructions[i].op = "Jump" /\ cur.instructions[i].arg > i

\* The markers the clauses of the if programs assign: m1 in the if body, m2
\* in the elif body, m3 in the else body.  The tests are the integers a (if)
\* and b (elif), truthy when not 0.
Markers == {"m1", "m2", "m3"}

\* C14: the tests of an if/elif/else chain are evaluated in order and exactly
\* the body of the first clause whose test is truthy executes; the else body
\* executes when no test is truthy, and never more than one body executes.
C14_FirstTruthyClause ==
    (Finished /\ result.t # "Err" /\ input.id \in {"if_plain", "if_else", "if_elif"}) =>
        DOMAIN env.locals \cap Markers =
            IF input.a # 0 THEN {"m1"}
            ELSE IF input.id = "if_elif" /\ input.b # 0 THEN {"m2"}
            ELSE IF input.id = "if_plain" THEN {}
            ELSE {"m3"}

-----------------------------------------------------------------------------
(* Properties of containers *)

\* The position an Int index i names in a sequence of len items, when it
\* names one: i from the start, or len + i from the end.
InRange(i, len) == -len <= i /\ i < len
Position(i, len) == IF i < 0 THEN len + i ELSE i

\* The operands of LoadIndex (the object below the index) and of StoreIndex
\* (the object below the index below the value).
AtLoadIndex == Fetch("LoadIndex") /\ Len(stack) >= 2
AtStoreIndex == Fetch("StoreIndex") /\ Len(stack) >= 3
Operand(k) == stack[Len(stack) - k]

\* C15: a List is one cell shared by every binding of it.  StoreIndex writes
\* the cell in place, changing no other cell and making none; LoadIndex and
\* ForIter read the cell as it is then; StoreName, LoadName, the binding of
\* Call arguments, BuildList and BuildTuple hand the List on as the same
\* cell and copy nothing.  So a store through one binding is read back
\* through every other: the aliasing programs end with the stored values.
C15_ListsShared ==
    [][/\ (AtStoreIndex /\ Operand(2).t = "List" /\ Operand(1).t = "Int"
            /\ InRange(Operand(1).i, Len(At(heap, Operand(2).ref)))) =>
              LET r == Operand(2).ref
              IN  /\ Len(heap') = Len(heap)
                  /\ \A a \in DOMAIN heap : a # r + 1 => heap'[a] = heap[a]
                  /\ At(heap', r) =
                        [At(heap, r) EXCEPT
                            ![Position(Operand(1).i, Len(At(heap, r))) + 1] = Operand(0)]
       /\ (AtLoadIndex /\ Operand(1).t = "List" /\ Operand(0).t = "Int"
            /\ InRange(Operand(0).i, Len(At(heap, Operand(1).ref)))) =>
              LET cell == At(heap, Operand(1).ref)
              IN  /\ Last(stack') = At(cell, Position(Operand(0).i, Len(cell)))
                  /\ heap' = heap
       /\ (Fetch("ForIter") /\ iter_stack # <<>> /\ Last(iter_stack).obj.t = "List"
            /\ Last(iter_stack).index < Len(At(heap, Last(iter_stack).obj.ref))) =>
              /\ Last(stack') = At(At(heap, Last(iter_stack).obj.ref),
                                   Last(iter_stack).index)
              /\ heap' = heap
       /\ (Fetch("StoreName") /\ stack # <<>>) =>
              /\ env'.locals[At(cur.names, Instr.arg)] = Last(stack)
              /\ heap' = heap
       /\ (Fetch("LoadName") /\ result' = Pending) =>
              /\ \E scope \in {"locals", "globals", "builtins"} :
                    /\ At(cur.names, Instr.arg) \in DOMAIN env[scope]
                    /\ Last(stack') = env[scope][At(cur.names, Instr.arg)]
              /\ heap' = heap
       /\ (AtFunctionCall /\ Compiled) =>
              /\ \A i \in 1..Instr.arg :
                    env'.locals[DeclaredParams(input, Callee.name)[i]] = Arg(i)
              /\ heap' = heap
       /\ (Fetch("BuildList") /\ Len(stack) >= Instr.arg) =>
              /\ Last(stack') = ListV(Len(heap))
              /\ heap' = Append(heap, [i \in 1..Instr.arg |->
                                          stack[Len(stack) - Instr.arg + i]])
       /\ (Fetch("BuildTuple") /\ Len(stack) >= Instr.arg) =>
              /\ Last(stack') = TupleV([i \in 1..Instr.arg |->
                                          stack[Len(stack) - Instr.arg + i]])
              /\ heap' = heap
       /\ (Finished' /\ input.id = "alias") => result' = IntV(2 * (input.b + 8) + 14)
       /\ (Finished' /\ input.id = "alias_iter") => result' = IntV(6)
      ]_vars

\* The end of the aliasing program: a, b and c name one List, the Tuple t
\* holds it, and the cell holds what was stored through l and through c.
C15_Witness ==
    /\ Finished /\ input.id = "alias" /\ input.a # input.b + 8
    /\ env.locals["a"].t = "List"
    /\ env.locals["b"] = env.locals["a"] /\ env.locals["c"] = env.locals["a"]
    /\ env.locals["t"].items[1] = env.locals["a"]
    /\ At(heap, env.locals["a"].ref) = <<IntV(input.b + 8), IntV(7)>>
    /\ result = IntV(2 * (input.b + 8) + 14)

\* The items of a List or Tuple value.
ItemsOf(v) == IF v.t = "Tuple" THEN v.items ELSE At(heap, v.ref)

Keys(d) == [j \in DOMAIN d |-> d[j][1]]

-----------------------------------------------------------------------------
(* Properties of range and of for loops *)

\* The values start + k * step, k = 0, 1, 2, .., strictly before stop in
\* the direction of step.
RangeValues(start, stop, step) ==
    LET n == IF step > 0
             THEN (IF stop > start THEN (stop - start + step - 1) \div step ELSE 0)
             ELSE (IF start > stop THEN (start - stop - step - 1) \div (-step) ELSE 0)
    IN  [k \in 1..n |-> IntV(start + (k - 1) * step)]

\* C18: a call of the range builtin with Int arguments (stop), (start, stop)
\* or (start, stop, step), start 0 and step 1 when not given, pushes a new
\* List of the values start + k * step strictly before stop, empty when
\* there is none; step 0 ends in ValueError; an argument that is not an
\* Int, or an argument count outside 1..3, ends in TypeError.
C18_Range ==
    [][(AtCall /\ Callee = Builtins["range"]) =>
          LET n == Instr.arg
              start == IF n = 1 THEN 0 ELSE Arg(1).i
              stop == IF n = 1 THEN Arg(1).i ELSE Arg(2).i
              step == IF n = 3 THEN Arg(3).i ELSE 1
          IN  IF n \notin 1..3 \/ \E i \in 1..n : Arg(i).t # "Int"
              THEN result' = Err("TypeError")
              ELSE IF step = 0 THEN result' = Err("ValueError")
              ELSE /\ result' = Pending
                   /\ Last(stack').t = "List"
                   /\ Last(stack').ref = Len(heap)
                   /\ heap' = Append(heap, RangeValues(start, stop, step))]_vars

\* C19: a for loop over a List, a Tuple or a Dict takes the elements (of a
\* Dict: the keys) in insertion order, each exactly once, and then exits:
\* the loop programs, which append each element to s, end with "abc".
C19_ForVisitsEachOnce ==
    (Finished /\ input.id \in {"for_list", "for_tuple", "for_dict"}) =>
        result = StrV("abc")

\* C20: when a for loop is left, by ForIter finding its iterator exhausted
\* or by Break, the loop's entry is taken off iter_stack, so that the depth
\* is what it was before the loop's GetIter and an enclosing loop goes on
\* with its own iterator: the outer loop over 1 and 2 of the nested program
\* adds up both.
C20_IteratorPoppedOnExit ==
    [][/\ (Fetch("ForIter") /\ result' = Pending /\ ip' # ip + 1) =>
              iter_stack' = Front(iter_stack)
       /\ (Fetch("Break") /\ Compiled /\ result' = Pending) =>
              iter_stack' = Front(iter_stack)
       /\ (Finished' /\ input.id = "for_nested_break") => result' = IntV(3)
      ]_vars

-----------------------------------------------------------------------------
(* Loop blocks *)

\* C21: a while loop's block is pushed once and removed exactly once on
\* every way out of the loop (test false, Break), so loop_stack after the
\* loop is what it was before its SetupLoop: a Break or Continue in an
\* enclosing loop, after an inner loop has finished, finds the enclosing
\* loop's block, whose exit is that loop's PopBlock, and no run ends with
\* a SyntaxError or with a block left on loop_stack.
C21_LoopBlockRemovedOnce ==
    input.id \in {"while_plain", "while_nested"} =>
        /\ (Fetch("Break") \/ Fetch("Continue")) =>
                /\ loop_stack # <<>>
                /\ At(cur.instructions, Last(loop_stack)[2]).op = "PopBlock"
                /\ Last(loop_stack)[2] > ip
        /\ Finished => loop_stack = <<>> /\ result # Err("SyntaxError")

-----------------------------------------------------------------------------
(* Classes *)

\* A Call whose callee is the constructor of a class.
AtConstructorCall == AtCall /\ Callee.t = "NativeFunction" /\ "class" \in DOMAIN Callee
HasInit(class) ==
    "__init__" \in DOMAIN class.methods /\ class.methods["__init__"].t = "Function"
\* The run of the Function a constructor (kind "init") or a bound method
\* (kind "method") started has returned Ok.
ClosureReturns(kind) ==
    /\ callers # <<>>
    /\ Last(callers).kind = kind
    /\ result \notin {Pending}
    /\ result.t # "Err"

\* C22: a call of a class's constructor allocates a fresh Instance with
\* empty attrs; if the class defines __init__ it runs __init__(instance,
\* *args), and the call's value is that instance whatever __init__
\* returned, else the call's value is the instance at once.  Attributes
\* stored by __init__ are on the returned instance, and two constructor
\* calls give two instances that share no attrs.
C22_ConstructorMakesInstance ==
    [][/\ AtConstructorCall =>
            LET inst == [t |-> "Instance", ref |-> Len(heap)]
                rest == SubSeq(stack, 1, Len(stack) - Instr.arg - 1)
                init == Callee.class.methods["__init__"]
            IN  /\ heap' = Append(heap, [class |-> Callee.class, attrs |-> EmptyMap])
                /\ IF HasInit(Callee.class)
                   THEN /\ callers' = Append(callers, Last(callers'))
                        /\ Last(callers').self = inst
                        /\ Last(callers').stack = rest
                        /\ Last(callers').ip = ip
                        /\ cur' = init.code /\ ip' = 0
                        /\ init.arity = Instr.arg + 1 =>
                              /\ env'.locals[init.code.names[1]] = inst
                              /\ \A i \in 1..Instr.arg :
                                    env'.locals[init.code.names[i + 1]] = Arg(i)
                   ELSE stack' = Append(rest, inst) /\ ip' = ip + 1
       /\ ClosureReturns("init") =>
            /\ stack' = Append(Last(callers).stack, Last(callers).self)
            /\ ip' = Last(callers).ip + 1
            /\ heap' = heap
       /\ (Finished' /\ input.id = "class_basic") =>
            /\ result' = IntV(input.a)
            /\ At(heap', 0).attrs = Insert(EmptyMap, "x", IntV(input.a))
            /\ At(heap', 1).attrs =
                   Insert(Insert(EmptyMap, "x", IntV(input.b)), "y", IntV(7))
       /\ (Finished' /\ input.id = "class_init_ret") => result' = IntV(1)]_vars

\* Two instances of one class were made by __init__ with different
\* arguments, one took a further attribute, and a method of the other read
\* back what __init__ stored.
C22_Witness ==
    /\ Finished
    /\ input.id = "class_basic"
    /\ input.a # input.b
    /\ Len(heap) = 2
    /\ At(heap, 0).attrs # At(heap, 1).attrs
    /\ result = IntV(input.a)

\* A Call whose callee is a bound method.
AtBoundCall == AtCall /\ Callee.t = "NativeFunction" /\ "func" \in DOMAIN Callee

\* C23: calling a bound method with args is a Call of its Function with
\* (instance, *args): TypeError unless the number of args is the Function's
\* arity less one; else the Function's code runs from its start in the env
\* that Call gives a Function (parameters bound in order, the globals the
\* Function captured, the builtins of the calling VM), and the call's value
\* is the value the Function returns.
C23_BoundMethodIsCall ==
    [][/\ AtBoundCall =>
            LET f == Callee.func
                full_args == <<Callee.self>> \o [i \in 1..Instr.arg |-> Arg(i)]
            IN  IF Instr.arg + 1 # f.arity
                THEN result' = Err("TypeError") /\ UNCHANGED <<cur, ip, env>>
                ELSE /\ cur' = f.code
                     /\ ip' = 0
                     /\ env' = CallEnv(f, full_args, Len(full_args), env)
       /\ ClosureReturns("method") =>
            /\ stack' = Append(Last(callers).stack, result)
            /\ ip' = Last(callers).ip + 1]_vars

\* C24: when a ClassDef's body has run, the class's method table holds
\* exactly the names the body bound (its StoreName and Def instructions), so
\* a name bound only in the locals of the enclosing scope is no attribute of
\* the class or of its instances, and the constructor, a NativeFunction, is
\* bound under the class name in the enclosing locals, which are otherwise
\* as they were.
C24_ClassTableIsBodyNames ==
    [][ClosureReturns("class") =>
          LET p == Last(callers)
              bound == {At(cur.names, IF i.op = "Def" THEN i.name ELSE i.arg) :
                            i \in {At(cur.instructions, j) : j \in
                                     {k \in 0..(Len(cur.instructions) - 1) :
                                         At(cur.instructions, k).op \in
                                             {"StoreName", "Def"}}}}
          IN  /\ DOMAIN env'.locals = DOMAIN p.env.locals \cup {p.loading}
              /\ \A n \in DOMAIN p.env.locals \ {p.loading} :
                     env'.locals[n] = p.env.locals[n]
              /\ env'.locals[p.loading].t = "NativeFunction"
              /\ env'.locals[p.loading].class.name = p.loading
              /\ DOMAIN env'.locals[p.loading].class.methods = bound]_vars

-----------------------------------------------------------------------------
(* Errors *)

\* C25: every error that compilation or a run returns carries one of the
\* categories SyntaxError, NameError, TypeError, ValueError, IndexError,
\* KeyError, AttributeError, ImportError, ModuleNotFoundError, RuntimeError
\* (a compiler-rejected construct SyntaxError, a stack underflow and a
\* missing iterator RuntimeError).  The message of a host closure is the
\* host's, and an abort of the process returns no error value.
C25_ErrorsCategorised ==
    (result.t = "Err" /\ result.msg \notin {"bad args", "panic", "abort"}) =>
        result.msg \in {"SyntaxError", "NameError", "TypeError", "ValueError",
                        "IndexError", "KeyError", "AttributeError", "ImportError",
                        "ModuleNotFoundError", "RuntimeError"}

\* C26: once a run has an error, in the main VM at any call depth, in the
\* sub-VM of a module body, a class body, __init__ or a bound method, or in
\* a native, no further instruction executes: each step left hands the
\* same error to the VM that waits for this run, which resumes nothing,
\* until execute returns it.  The errors of the catalogue's failing
\* programs arrive at the top unchanged.
C26_FirstErrorEndsRun ==
    [][/\ result.t = "Err" =>
            /\ result' = result
            /\ callers # <<>>
            /\ callers' = Front(callers)
            /\ ip' = Last(callers).ip
            /\ stack' = Last(callers).stack
            /\ env' = Last(callers).env
            /\ UNCHANGED <<heap, hostVars>>
       /\ Finished' =>
            /\ input.id \in {"name_error", "class_body_err", "import_bad"} =>
                   result' = Err("NameError")
            /\ (input.id = "method_builtin" /\ input.b = 1) => result' = Err("NameError")
            /\ input.id \in {"init_err", "range_bad", "arity_fn"} =>
                   result' = Err("TypeError")
            /\ input.id = "import_err" => result' = Err("ImportError")]_vars

\* An error of __init__, raised in the constructor's sub-VM after __init__
\* had stored an attribute, is what execute returned.
C26_Witness ==
    /\ Finished
    /\ input.id = "init_err"
    /\ result = Err("TypeError")
    /\ Len(heap) = 1
    /\ "x" \in DOMAIN At(heap, 0).attrs
    /\ "c" \notin DOMAIN env.locals

-----------------------------------------------------------------------------
(* Host natives *)

\* C27: a native that execute registered with arity n is found by its name
\* from top-level code and from the body of a top-level function; a Call
\* with n arguments invokes the closure once with the arguments in source
\* order, and the closure's result is the value of the call.
C27_NativeResolvable ==
    [][input.id \in {"native_fn", "native_in_fn"} =>
          /\ (AtCall /\ Callee.t = "NativeFunction") =>
                /\ Callee = NativeFunctionV("sum2", 2)
                /\ native_calls' = Append(native_calls, <<"sum2", <<Arg(1), Arg(2)>>>>)
                /\ stack' = Append(SubSeq(stack, 1, Len(stack) - 3),
                                   NativeApply(Callee, <<Arg(1), Arg(2)>>))
                /\ result' = Pending
          /\ Finished' =>
                /\ result' = IntV(input.a + input.b)
                /\ native_calls' =
                       IF input.id = "native_fn"
                       THEN <<<<"sum2", <<IntV(input.a), IntV(input.b)>>>>>>
                       ELSE <<<<"sum2", <<IntV(input.b), IntV(input.a)>>>>>>]_vars

\* sum2 was called in the body of f with f's parameters in the order the
\* body names them, and the sum is the result.
C27_Witness ==
    /\ Finished
    /\ input.id = "native_in_fn"
    /\ input.a # input.b
    /\ native_calls = <<<<"sum2", <<IntV(input.b), IntV(input.a)>>>>>>
    /\ result = IntV(input.a + input.b)

-----------------------------------------------------------------------------
(* Arithmetic and truthiness *)

Num(v) == v.t \in {"Int", "Float"}
\* The arithmetic program of operator c on the operands a and b.
Arith(a, c, b) == [id |-> "arith", a |-> a, b |-> b, c |-> c]

-----------------------------------------------------------------------------
(* Truthiness *)

\* The values the truthiness rule names as false.
Falsey(v) ==
    \/ v \in {BoolV(FALSE), NoneV, IntV(0), FloatV(0, 1), StrV(""), TupleV(<<>>)}
    \/ v.t \in {"List", "Dict", "Set"} /\ Len(At(heap, v.ref)) = 0

\* The branching program on operand a with JumpIfFalse (b = 0) or
\* JumpIfTrue (b = 1); it returns 1 when the jump is taken, 0 when not.
Branch(a, b) == [id |-> "raw_jump", a |-> a, b |-> b, c |-> 0]

\* The operands of the branching programs that denote a false value: Int 0,
\* Float 0.0, None, "", False, and the empty List, Dict, Tuple and Set.
FalseOperands == {3, 5, 7, 9, 10, 11, 13, 15, 17}
\* The operand whose evaluation fails: a Set of a List.
FailingOperands == {19}

\* C29: JumpIfFalse and JumpIfTrue pop a value; JumpIfFalse jumps exactly
\* when the value is Bool false, None, Int 0, Float 0.0 or an empty Str,
\* List, Dict, Tuple or Set, JumpIfTrue exactly when it is any other value
\* (a Function, NativeFunction, Instance, Module or Type among them), and
\* each goes on with the next instruction when it does not jump.
C29_TruthinessDecidesJumps ==
    [][/\ \A o \in {"JumpIfFalse", "JumpIfTrue"} :
            (Fetch(o) /\ stack # <<>>) =>
                /\ result' = Pending
                /\ stack' = Front(stack)
                /\ ip' = IF (o = "JumpIfFalse") = Falsey(Last(stack))
                         THEN Instr.arg ELSE ip + 1
                /\ is_falsey(Last(stack), heap) = Falsey(Last(stack))
       /\ \A a \in DOMAIN Operands \ FailingOperands, b \in {0, 1} :
            (Finished' /\ input = Branch(a, b)) =>
                result' = IntV(IF (b = 0) = (a \in FalseOperands) THEN 1 ELSE 0)
      ]_vars

\* JumpIfTrue has met an empty Set and gone on, and the run has ended.
C29_Witness ==
    /\ Finished
    /\ input = Branch(17, 1)
    /\ result = IntV(0)
    /\ \E r \in DOMAIN heap : heap[r] = <<>>

-----------------------------------------------------------------------------
(* Printing and reading back *)

\* The values whose printed form is to read back: the scalars, and a List
\* or a Tuple of numbers.
Printable(v) ==
    \/ v.t \in {"Int", "Float", "Bool", "Str", "None"}
    \/ v.t = "List" /\ \A i \in DOMAIN At(heap, v.ref) : Num(At(heap, v.ref)[i])
    \/ v.t = "Tuple" /\ \A i \in DOMAIN v.items : Num(v.items[i])

\* The compiled text is one literal expression of v's variant denoting v: a
\* constant load of v, or the loads of v's items and the matching Build.
ReadsAs(r, v) ==
    /\ r.err = ""
    /\ LET ins == r.code.instructions
           Loads(items, build) ==
               /\ Len(ins) = Len(items) + 2
               /\ \A i \in DOMAIN items :
                      /\ ins[i].op = "LoadConst"
                      /\ At(r.code.consts, ins[i].arg) = items[i]
               /\ ins[Len(items) + 1] = Op1(build, Len(items))
       IN  CASE v.t = "List" -> Loads(At(heap, v.ref), "BuildList")
             [] v.t = "Tuple" -> Loads(v.items, "BuildTuple")
             [] OTHER -> /\ Len(ins) = 2
                         /\ ins[1].op = "LoadConst"
                         /\ At(r.code.consts, ins[1].arg) = v

\* C30: the text a printing program writes for an Int, a Float, a Bool, a
\* Str, None, or a List or Tuple of numbers, read back as source text, is a
\* literal of the value's own variant that denotes the value.
C30_PrintedReadsBack ==
    \A i \in DOMAIN native_calls :
        (input.id = "display" /\ native_calls[i][1] = "print") =>
            \A j \in DOMAIN native_calls[i][2] :
                LET v == native_calls[i][2][j]
                IN  Printable(v) => ReadsAs(compile(parse(Display(v, heap))), v)

-----------------------------------------------------------------------------
(* Importing names from a module *)

\* The names an ImportFrom instruction of code asks for.
Requested(code, instr) == {At(code.names, instr.names[i]) : i \in DOMAIN instr.names}

\* locals with each requested name bound to its value in dict.
BoundFrom(locals, dict, wanted) ==
    [x \in DOMAIN locals \cup wanted |-> IF x \in wanted THEN dict[x] ELSE locals[x]]

\* C31: ImportFrom takes the module from the cache when it is there, a file
\* module or a native one, and otherwise from the run of the module's body,
\* whose locals become the module's dict; it binds every requested name in
\* the importing locals to the name's value in that dict and goes on, or
\* gives ImportError when a requested name is not in the dict.
C31_ImportFromBinds ==
    [][/\ (Fetch("ImportFrom") /\ At(cur.names, Instr.module) \in DOMAIN modules) =>
            LET m == modules[At(cur.names, Instr.module)]
                wanted == Requested(cur, Instr)
            IN  /\ m.t \in {"Module", "NativeModule"}
                /\ fs_reads' = fs_reads /\ body_runs' = body_runs /\ modules' = modules
                /\ IF wanted \subseteq DOMAIN m.dict
                   THEN /\ result' = Pending
                        /\ ip' = ip + 1
                        /\ env' = [env EXCEPT !.locals = BoundFrom(@, m.dict, wanted)]
                   ELSE result' = Err("ImportError")
       /\ (Fetch("ImportFrom") /\ At(cur.names, Instr.module) \notin DOMAIN modules
             /\ result' = Pending) =>
            /\ Len(callers') = Len(callers) + 1
            /\ body_runs' = Append(body_runs, At(cur.names, Instr.module))
            /\ env'.locals = EmptyMap
       /\ (callers # <<>> /\ Last(callers).kind = "module"
             /\ At(Last(callers).cur.instructions, Last(callers).ip).op = "ImportFrom"
             /\ result # Pending /\ result.t # "Err") =>
            LET p == Last(callers)
                wanted == Requested(p.cur, At(p.cur.instructions, p.ip))
            IN  /\ callers' = Front(callers)
                /\ modules'[p.loading] = ModuleV(p.loading, env.locals)
                /\ IF wanted \subseteq DOMAIN env.locals
                   THEN /\ result' = Pending
                        /\ ip' = p.ip + 1
                        /\ env' = [p.env EXCEPT !.locals = BoundFrom(@, env.locals, wanted)]
                   ELSE result' = Err("ImportError")
      ]_vars

\* `from mb import b, c` has just completed on a module loaded for it: b
\* and c are bound to what the body of mb left in its locals, and a name
\* imported from the native module before is still bound.
C31_Witness ==
    /\ Done("ImportFrom")
    /\ callers = <<>>
    /\ input.id = "native_mod"
    /\ body_runs = <<"mb">>
    /\ modules["mb"].dict = [x \in {"b", "_p", "c"} |->
                                IntV(CASE x = "b" -> 2 [] x = "_p" -> 3 [] x = "c" -> 4)]
    /\ {"b", "c", "k"} \subseteq DOMAIN env.locals
    /\ "_p" \notin DOMAIN env.locals
    /\ env.locals["b"] = IntV(2) /\ env.locals["c"] = IntV(4) /\ env.locals["k"] = IntV(8)

-----------------------------------------------------------------------------
(* The operand stack and the loop stacks across a call *)

\* The entry of fn_calls for the Call whose callee is running: the last
\* Call made by this VM at the frame depth just below the present one.
CallMark ==
    LET mine == {i \in DOMAIN fn_calls :
                    /\ fn_calls[i].level = Len(callers)
                    /\ fn_calls[i].depth = Len(frames) - 1}
    IN  fn_calls[CHOOSE i \in mine : \A j \in mine : j <= i]

\* C32: a Call of a user Function with n arguments takes the callee and the
\* n arguments off the operand stack, and the Return that completes it puts
\* exactly the returned value on the slots that were below the callee, which
\* are as they were: the depth is the depth before the Call minus n,
\* whatever the callee's body evaluated before it returned.
C32_CallLeavesOneResult ==
    [][/\ AtFunctionCall =>
            /\ stack' = SubSeq(stack, 1, Len(stack) - Instr.arg - 1)
            /\ Last(fn_calls').stack = stack'
       /\ (Fetch("Return") /\ frames # <<>>) =>
            /\ stack' = Append(CallMark.stack, Top(stack))
            /\ Len(stack') = Len(CallMark.stack) + 1
      ]_vars

\* The loop block or the iterator a handler is about to use was pushed by
\* the running activation: it lies above what the stack held at the Call.
OwnEntry(stk, at_call) == frames # <<>> => Len(stk) > Len(at_call)

\* C33: when a Call of a user Function has returned, from wherever in the
\* callee, loop_stack and iter_stack are what they were at the Call; Break,
\* Continue and PopBlock use a loop block pushed by a SetupLoop of the code
\* being executed, in the running activation, ForIter an iterator pushed in
\* the running activation, and the address each jumps to lies in the code
\* being executed.
C33_LoopStacksPerActivation ==
    [][/\ (Fetch("Return") /\ frames # <<>>) =>
            /\ loop_stack' = CallMark.loop_stack
            /\ iter_stack' = CallMark.iter_stack
       /\ \A o \in {"Break", "Continue", "PopBlock"} :
            (Fetch(o) /\ loop_stack # <<>>) =>
                LET block == Last(loop_stack)
                IN  /\ OwnEntry(loop_stack, CallMark.loop_stack)
                    /\ block[1] - 1 < Len(cur.instructions)
                    /\ At(cur.instructions, block[1] - 1) = Op1("SetupLoop", block[2])
                    /\ ip' <= Len(cur.instructions)
       /\ (Fetch("ForIter") /\ iter_stack # <<>>) =>
                /\ OwnEntry(iter_stack, CallMark.iter_stack)
                /\ ip' <= Len(cur.instructions)
      ]_vars

-----------------------------------------------------------------------------
(* Index assignment *)

\* C34: the code of an assignment obj[key] = value is the code of obj, of
\* key and of value, each once, and StoreIndex; run, it evaluates the value
\* once and leaves the operand stack as deep as it found it.
C34_IndexAssignEvaluatesOnce ==
    /\ Compiled =>
          \A i \in DOMAIN Source(input) :
              LET st == Source(input)[i]
              IN  (st.k = "Assign" /\ st.targets[1].k = "Subscript") =>
                      Size(<<st>>) = ExprSize(st.targets[1].value)
                                        + ExprSize(st.targets[1].slice)
                                        + ExprSize(st.value) + 1
    /\ (input.id = "index_call" /\ callers = <<>> /\ frames = <<>> /\ Done("StoreIndex")) =>
          /\ Len(fn_calls) = 1
          /\ stack = <<>>
          /\ At(heap, env.locals["l"].ref) = <<IntV(1)>>

-----------------------------------------------------------------------------
(* CallMethod *)

\* C35: CallMethod n does what Call n does on the same state, for every
\* callee and every n: it checks a user Function's arity and pushes a frame,
\* checks a NativeFunction's arity unless it is variadic and pushes the
\* closure's result, and gives TypeError for any other value.
C35_CallMethodIsCall ==
    [][Fetch("CallMethod") => CallHandler]_vars

-----------------------------------------------------------------------------
(* ForIter and the live container *)

\* The container behind the top iterator as it is now.
LiveItems ==
    LET it == Last(iter_stack)
    IN  CASE it.obj.t = "List" -> At(heap, it.obj.ref)
          [] it.obj.t = "Tuple" -> it.obj.items
          [] OTHER -> <<>>

\* What one ForIter does: the element at the stored index of the container
\* as it is now, or the exit once the index has reached its length.
ForIterStep ==
    Fetch("ForIter") =>
        IF iter_stack = <<>> THEN result' = Err("RuntimeError")
        ELSE IF Last(iter_stack).index < Len(LiveItems)
        THEN /\ stack' = Append(stack, At(LiveItems, Last(iter_stack).index))
             /\ iter_stack' = [iter_stack EXCEPT ![Len(iter_stack)].index = @ + 1]
             /\ ip' = ip + 1
        ELSE /\ stack' = stack
             /\ iter_stack' = Front(iter_stack)
             /\ ip' = Instr.arg

\* The body of the loop of for_push counts its runs in n: a runs over a List
\* of a zeros, which it leaves alone, and 2a runs over a List of a non-zero
\* elements, for each of which it pushes a zero.
PushRuns ==
    (Finished' /\ input.id = "for_push") =>
        result' = IntV(IF input.b = 0 THEN input.a ELSE 2 * input.a)

\* The body of the outer loop of for_nested_break, a loop over [1, 2] that
\* it does not mutate, adds x to s on each run.
OuterRuns ==
    (Finished' /\ input.id = "for_nested_break") => result' = IntV(1 + 2)

\* C36: ForIter reads the stored index against the live container: it pushes
\* element[index] and increments the index iff index < the current length,
\* else pops the iterator and jumps to exit, and with no iterator it gives
\* RuntimeError; so a for loop over a List of length L that its body does
\* not mutate runs the body L times and ends, and elements the body appends
\* are visited too.
C36_ForIterReadsLiveContainer ==
    [][ForIterStep /\ PushRuns /\ OuterRuns]_vars

-----------------------------------------------------------------------------
(* Attributes of instances *)

\* LoadAttr on an Instance: the instance's own attribute first, then the
\* class's entry, bound to the instance if it is a Function.
LoadAttrOnInstance ==
    (Fetch("LoadAttr") /\ stack # <<>> /\ Last(stack).t = "Instance") =>
        LET attr == At(cur.names, Instr.arg)
            inst == At(heap, Last(stack).ref)
            Pushes(v) == result' = Pending /\ stack' = Append(Front(stack), v)
        IN  IF attr \in DOMAIN inst.attrs THEN Pushes(inst.attrs[attr])
            ELSE IF attr \notin DOMAIN inst.class.methods
            THEN result' = Err("AttributeError")
            ELSE IF inst.class.methods[attr].t # "Function"
            THEN Pushes(inst.class.methods[attr])
            ELSE /\ result' = Pending
                 /\ Front(stack') = Front(stack)
                 /\ Last(stack').t = "NativeFunction"
                 /\ "func" \in DOMAIN Last(stack')
                 /\ Last(stack').func = inst.class.methods[attr]
                 /\ Last(stack').self = Last(stack)

\* StoreAttr: one entry of the attrs of the instance below the value, and
\* nothing else of the heap or of the environment; an error on anything
\* that is not an Instance.
StoreAttrOnInstance ==
    (Fetch("StoreAttr") /\ Len(stack) >= 2) =>
        LET attr == At(cur.names, Instr.arg)
            value == Last(stack)
            obj == Last(Front(stack))
        IN  IF obj.t # "Instance" THEN result' = Err("AttributeError")
            ELSE /\ result' = Pending
                 /\ env' = env
                 /\ Len(heap') = Len(heap)
                 /\ \A r \in 0..(Len(heap) - 1) :
                        r # obj.ref => At(heap', r) = At(heap, r)
                 /\ At(heap', obj.ref).class = At(heap, obj.ref).class
                 /\ DOMAIN At(heap', obj.ref).attrs =
                        DOMAIN At(heap, obj.ref).attrs \cup {attr}
                 /\ \A n \in DOMAIN At(heap', obj.ref).attrs :
                        At(heap', obj.ref).attrs[n] =
                            IF n = attr THEN value ELSE At(heap, obj.ref).attrs[n]

\* C37: LoadAttr on an Instance gives attrs[name] when the instance has it,
\* even if the class defines name too; otherwise the class's entry, as a
\* bound method if it is a Function and as it is if not; AttributeError if
\* neither has it.  StoreAttr on an Instance writes that instance's attrs
\* only, and StoreAttr on any other value is an error.
C37_AttributeLookupAndStore ==
    [][LoadAttrOnInstance /\ StoreAttrOnInstance]_vars

-----------------------------------------------------------------------------
(* The arity of a bound method *)

\* C38: the bound method LoadAttr makes of a class Function of arity a has
\* arity a - 1, computed without unsigned underflow: for a method defined
\* with no parameter the access neither aborts the VM nor gives a callable
\* of arity UNBOUNDED, which Call takes with any number of arguments.
C38_BoundArityNoUnderflow ==
    [][(/\ Fetch("LoadAttr") /\ stack # <<>> /\ Last(stack).t = "Instance"
        /\ LET attr == At(cur.names, Instr.arg)
               inst == At(heap, Last(stack).ref)
           IN  /\ attr \notin DOMAIN inst.attrs
               /\ attr \in DOMAIN inst.class.methods
               /\ inst.class.methods[attr].t = "Function")
       => /\ result' # Err("panic")
          /\ result' = Pending =>
                /\ Last(stack').arity # UNBOUNDED
                /\ Last(stack').arity =
                       At(heap, Last(stack).ref).class.methods[At(cur.names, Instr.arg)].arity - 1
      ]_vars

-----------------------------------------------------------------------------
(* Circular imports *)

\* The modules whose bodies are running, the outermost first.
Loading ==
    LET ms == SelectSeq(callers, LAMBDA c : c.kind = "module")
    IN  [i \in 1..Len(ms) |-> ms[i].loading]

\* C39: loading a file module ends when imports are circular: the load of a
\* module is never begun inside a load of the same module, so the sub-VMs
\* nest no deeper than there are modules.
C39_CircularImportEnds ==
    /\ \A i, j \in 1..Len(Loading) : i < j => Loading[i] # Loading[j]
    /\ Len(Loading) <= Cardinality(DOMAIN Files)

-----------------------------------------------------------------------------
(* The arity of __init__ *)

\* C40: a constructor called with k arguments, where the class's __init__ is
\* a Function whose arity is not k + 1, gives TypeError as Call does for a
\* user Function, and the body of __init__ does not run.
C40_InitArityChecked ==
    [][(/\ AtCall /\ Callee.t = "NativeFunction" /\ "class" \in DOMAIN Callee
        /\ "__init__" \in DOMAIN Callee.class.methods
        /\ Callee.class.methods["__init__"].t = "Function"
        /\ Callee.class.methods["__init__"].arity # Instr.arg + 1)
       => /\ result' = Err("TypeError")
          /\ callers' = callers]_vars

-----------------------------------------------------------------------------
(* The pools of one code object under a sequence of name_index and         *)
(* const_index calls, as compile_expr and compile_stmt make them.  stack   *)
(* records the calls: <<pool, entry, returned index>>.                     *)

PoolInit ==
    /\ cur = CodeObjectDefault
    /\ stack = <<>>
    /\ input = [id |-> "empty", a |-> 0, b |-> 0, c |-> 0]
    /\ result = Pending
    /\ ip = 0
    /\ env = EnvDefault
    /\ frames = <<>> /\ loop_stack = <<>> /\ iter_stack = <<>> /\ callers = <<>>
    /\ modules = EmptyMap /\ heap = <<>>
    /\ fs_reads = <<>> /\ body_runs = <<>> /\ native_calls = <<>> /\ fn_calls = <<>>

PoolName ==
    \E name \in {"x", "y", "print"} :
        /\ Len(stack) < MaxCalls
        /\ cur' = name_index(cur, name).code
        /\ stack' = Append(stack, <<"names", name, name_index(cur, name).i>>)
        /\ UNCHANGED <<env, loopVars, modules, ip, frames, result, callers, hostVars, heap>>

\* Constants of each literal kind; 1, True and "1" are three constants.
PoolConst ==
    \E obj \in {IntV(0), IntV(1), BoolV(TRUE), StrV("1"), NoneV} :
        /\ Len(stack) < MaxCalls
        /\ cur' = const_index(cur, obj).code
        /\ stack' = Append(stack, <<"consts", obj, const_index(cur, obj).i>>)
        /\ UNCHANGED <<env, loopVars, modules, ip, frames, result, callers, hostVars, heap>>

PoolNext == PoolName \/ PoolConst

PoolSpec == PoolInit /\ [][PoolNext]_vars

\* C13: name_index and const_index return the index of the equal entry when
\* the pool has one and append otherwise: a pool never holds two equal
\* entries, every index returned so far still names the entry it was
\* returned for, and a pool has exactly as many entries as distinct entries
\* were asked for, so that asking again does not grow it.
C13_PoolsDeduplicated ==
    \A pool \in {"names", "consts"} :
        LET entries == cur[pool]
            calls == {i \in DOMAIN stack : stack[i][1] = pool}
        IN  /\ \A i, j \in DOMAIN entries : entries[i] = entries[j] => i = j
            /\ \A i \in calls :
                    /\ stack[i][3] < Len(entries)
                    /\ At(entries, stack[i][3]) = stack[i][2]
            /\ Len(entries) = Cardinality({stack[i][2] : i \in calls})

\* An entry has been asked for twice, with another one in between.
C13_Witness ==
    /\ Len(stack) = 3
    /\ stack[1] = stack[3]
    /\ stack[2][1] = stack[1][1] /\ stack[2][2] # stack[1][2]

====
